---- MODULE Spec2Model ----
(***************************************************************************)
(* Session memory of the multi-agent backend (Scripts/memory_manager.py):  *)
(* memory[session_id][agent] is the conversation log of one (session,      *)
(* agent-channel) pair.  One action per public method of MemoryManager,    *)
(* executed atomically (one call at a time), under Spec.                   *)
(* SweepSpec runs cleanup_old_sessions step by step beside other calls,    *)
(* LoopSpec the consulting endpoint and TurnSpec the four agent endpoints  *)
(* on the asyncio event loop (Scripts/api_server.py), LoadSpec and         *)
(* SearchSpec the document corpus                                          *)
(* (Scripts/document_handler.py), ExpandSpec and ExtractSpec the query     *)
(* expansion, GatherSpec and InfoSpec the aggregation and the rendering    *)
(* of the context (Scripts/smart_document_handler.py).                     *)
(***************************************************************************)
EXTENDS Integers, Sequences, FiniteSets, TLC

VARIABLES
    memory,     \* MemoryManager.memory: session_id -> (agent -> list of entries)
    now,        \* the wall clock read by datetime.now(), in hours
    last,       \* the last call made on the store, with what it returned or raised
    nAdds,      \* number of add_message calls made so far (bounds the run)
    appended,   \* history: per (session, agent) the entries appended since the log was last emptied
    cleared     \* history: sessions removed by clear_session(sid) with no add_message since

VARIABLES
    sweep       \* a cleanup_old_sessions call in progress, run step by step beside other calls

VARIABLES
    req,        \* the requests to POST /agent/consulting: where each handler stands
    running     \* the coroutine the asyncio event loop is executing, None when it is free

VARIABLES
    file_paths,     \* the files under documents_dir, in the order rglob lists them
    documents,      \* DocumentHandler.documents: stem -> entry, in insertion order
    products_cache, \* DocumentHandler.products_cache: key -> product, in insertion order
    load,           \* a load_all_documents call: where it stands, what is left to load
    found           \* the last search made, with the hits it returned

VARIABLES
    hash_seed,            \* the hash seed the interpreter drew when the process started
    model,                \* SmartDocumentHandler.model: whether a model handler was given
    conversation_context, \* SmartDocumentHandler.conversation_context: session -> topic, entities
    rew,                  \* the last rewrite_query call, with what it returned
    info                  \* the last get_context_aware_info call, with what it returned

memVars == <<memory, now, last, nAdds, appended, cleared>>
smartVars == <<hash_seed, model, conversation_context, rew, info>>
sweepVars == <<sweep>>
loopVars == <<req, running>>
corpusVars == <<file_paths, documents, products_cache, load, found>>
\* the variables no method of MemoryManager called as one atomic step touches
nonMemVars == <<sweepVars, loopVars, corpusVars, smartVars>>

vars == <<memVars, sweepVars, loopVars, corpusVars, smartVars>>

----------------------------------------------------------------------------
(* Bounds of the model *)

\* Config.MAX_CONVERSATION_HISTORY (default 30, read from the environment), scaled down
MAX_CONVERSATION_HISTORY == 2
\* total number of add_message calls in a run
MaxAdds == 3
\* the clock runs from 0 to MaxTime hours
MaxTime == 1
\* cleanup_old_sessions is called with max_age_hours in 0..MaxAge
MaxAge == 0

----------------------------------------------------------------------------
(* Values *)

None == "<None>"
EmptyStr == ""

\* session ids a request can carry: two real ones, the empty string and None
RealSessions == {"s1", "s2"}
SessionIds == RealSessions \cup {EmptyStr, None}

\* the agent types _ensure_session creates
KnownAgents == {"phanloai", "create_order", "consulting"}
\* the agent names the endpoints of api_server.py pass
RoutedAgents == KnownAgents \cup {"check_order"}
\* the agent names the calls of this model pass: two that _ensure_session creates
\* and the one it does not
CalledAgents == {"consulting", "create_order", "check_order"}
\* agent arguments of clear_session: a name, the empty string or None (the default)
ClearAgents == CalledAgents \cup {EmptyStr, None}

Roles == {"user", "assistant"}
\* the role and content the calls of this model pass (the store never inspects either)
CalledRoles == {"user"}
Contents == {"hi"}

\* most_recent = None in cleanup_old_sessions
NoTime == -1

\* Python truthiness of a str-or-None argument: `if not x` / `if x`
Falsy(x) == x \in {EmptyStr, None}

NoCall == [op |-> "init", sid |-> None, agent |-> None, age |-> 0,
           hist |-> <<>>, ok |-> FALSE, n |-> 0, exc |-> "none"]

Call(op, sid, agent) == [NoCall EXCEPT !.op = op, !.sid = sid, !.agent = agent]

----------------------------------------------------------------------------
(* Helpers: the statements of MemoryManager's methods *)

\* a session dict that starts with a greeting turn in the consulting log
NewSessionWithGreeting ==
    [a \in KnownAgents |->
        IF a = "consulting"
        THEN <<[role |-> "assistant", content |-> "hi", timestamp |-> 0]>>
        ELSE <<>>]

\* the dict literal of _ensure_session
NewSession == [a \in KnownAgents |-> <<>>]

\* _ensure_session(session_id)
ensure_session(mem, sid) ==
    IF sid \in DOMAIN mem
    THEN mem
    ELSE [x \in DOMAIN mem \cup {sid} |-> IF x = sid THEN NewSession ELSE mem[x]]

\* self.memory[session_id].get(agent, [])
history_of(mem, sid, agent) ==
    IF agent \in DOMAIN mem[sid] THEN mem[sid][agent] ELSE <<>>

\* the entry dict built by add_message; timestamp = datetime.now()
Entry(role, content, t) == [role |-> role, content |-> content, timestamp |-> t]

\* log[:MAX] in place of log[-MAX:]: keeps the oldest entries
truncate_keep_oldest(log) ==
    IF Len(log) > MAX_CONVERSATION_HISTORY
    THEN SubSeq(log, 1, MAX_CONVERSATION_HISTORY)
    ELSE log

\* if len(log) > MAX: log = log[-MAX:]
truncate(log) ==
    IF Len(log) > MAX_CONVERSATION_HISTORY
    THEN SubSeq(log, Len(log) - MAX_CONVERSATION_HISTORY + 1, Len(log))
    ELSE log

\* the agent logs of a session sharing one list object: an append shows in all of them
append_entry_shared(mem, sid, agent, entry) ==
    [mem EXCEPT ![sid] = [a \in DOMAIN @ |-> truncate(Append(@[a], entry))]]

\* insert(0, entry) in place of append(entry): the new entry goes to the front
insert_entry_first(mem, sid, agent, entry) ==
    [mem EXCEPT ![sid][agent] = truncate(<<entry>> \o @)]

\* self.memory[session_id][agent].append(entry), then the truncation
append_entry(mem, sid, agent, entry) ==
    [mem EXCEPT ![sid][agent] = truncate(Append(@, entry))]

\* del self.memory[session_id] in the branch that clears one agent's log
clear_agent_drops_session(mem, sid, agent) == [x \in DOMAIN mem \ {sid} |-> mem[x]]

\* del self.memory[session_id][agent] in place of the assignment of []
clear_agent_del(mem, sid, agent) ==
    [mem EXCEPT ![sid] = [a \in DOMAIN @ \ {agent} |-> @[a]]]

\* self.memory[session_id][agent] = []
clear_agent(mem, sid, agent) == [mem EXCEPT ![sid][agent] = <<>>]

\* only the default agent's log is emptied, the session stays
delete_session_default_only(mem, sid) == [mem EXCEPT ![sid]["consulting"] = <<>>]

\* del self.memory[session_id]
delete_session(mem, sid) == [x \in DOMAIN mem \ {sid} |-> mem[x]]

\* `if session_id is None` in place of `if not session_id`
no_session_none_only(sid) == sid = None

\* `if not session_id` at the head of get_history and add_message
no_session(sid) == Falsy(sid)

\* clear_session returning True for an agent the session does not hold
agent_not_found_true == TRUE

\* clear_session's `return False` when the agent is not in the session
agent_not_found_return == FALSE

Max(S) == CHOOSE x \in S : \A y \in S : y <= x
Min(S) == CHOOSE x \in S : \A y \in S : x <= y

\* `last_msg_time < most_recent` in place of `>`: the smallest of the last timestamps
most_recent_smallest(agents) ==
    LET lasts == {agents[a][Len(agents[a])].timestamp :
                     a \in {b \in DOMAIN agents : agents[b] # <<>>}}
    IN  IF lasts = {} THEN NoTime ELSE Min(lasts)

\* the inner loop of cleanup_old_sessions: the greatest timestamp among the
\* last entries of the non-empty agent logs, None when every log is empty
most_recent(agents) ==
    LET lasts == {agents[a][Len(agents[a])].timestamp :
                     a \in {b \in DOMAIN agents : agents[b] # <<>>}}
    IN  IF lasts = {} THEN NoTime ELSE Max(lasts)

\* most_recent and (current_time - most_recent) > timedelta(hours=max_age_hours)
is_old(agents, current_time, max_age_hours) ==
    /\ most_recent(agents) # NoTime
    /\ current_time - most_recent(agents) > max_age_hours

\* the list sessions_to_delete built by the outer loop
sessions_to_delete(mem, current_time, max_age_hours) ==
    {s \in DOMAIN mem : is_old(mem[s], current_time, max_age_hours)}

----------------------------------------------------------------------------
(* Document corpus (Scripts/document_handler.py).  A string is the sequence of  *)
(* its characters; a dict is the sequence of its items in insertion order.      *)

\* SNIPPET window: 200 characters each side in the source, scaled down
SnippetRadius == 1
\* search limits run over 0..MaxLimit
MaxLimit == 2

\* str.lower(), character by character (length-preserving on this alphabet)
lower_char(c) == IF c = "A" THEN "a" ELSE IF c = "B" THEN "b" ELSE c
lower(s) == [i \in 1..Len(s) |-> lower_char(s[i])]

\* s[start:end] for 0 <= start, 0 <= end
slice(s, start, end) ==
    IF Min({end, Len(s)}) <= start THEN <<>> ELSE SubSeq(s, start + 1, Min({end, Len(s)}))

\* needle occurs in hay at the 0-based position i
occurs_at(hay, needle, i) ==
    /\ i + Len(needle) <= Len(hay)
    /\ SubSeq(hay, i + 1, i + Len(needle)) = needle

\* str.find(needle): lowest position of an occurrence, -1 when there is none
find(hay, needle) ==
    IF \E i \in 0..Len(hay) : occurs_at(hay, needle, i)
    THEN Min({i \in 0..Len(hay) : occurs_at(hay, needle, i)})
    ELSE -1

\* `needle in hay`
contains_after_start(hay, needle) == find(hay, needle) > 0
contains(hay, needle) == find(hay, needle) # -1

\* str.count(needle): occurrences counted left to right, the scan resuming after
\* the end of each occurrence found; len + 1 for the empty needle
RECURSIVE count_from(_, _, _)
count_from(hay, needle, i) ==
    LET ahead == {j \in i..Len(hay) : occurs_at(hay, needle, j)}
    IN  IF ahead = {} THEN 0
        ELSE 1 + count_from(hay, needle, Min(ahead) + Len(needle))

count_overlapping(hay, needle) ==
    Cardinality({i \in 0..Len(hay) : occurs_at(hay, needle, i)})
count(hay, needle) ==
    IF needle = <<>> THEN Len(hay) + 1 ELSE count_from(hay, needle, 0)

\* str.strip(): leading and trailing whitespace removed
is_space(c) == c = " "
RECURSIVE lstrip(_)
lstrip(s) == IF s # <<>> /\ is_space(Head(s)) THEN lstrip(Tail(s)) ELSE s
RECURSIVE rstrip(_)
rstrip(s) ==
    IF s # <<>> /\ is_space(s[Len(s)]) THEN rstrip(SubSeq(s, 1, Len(s) - 1)) ELSE s
strip(s) == rstrip(lstrip(s))

\* d[key] = value on a dict kept as a sequence of [key, value] items: a key already
\* present keeps its place, a new key goes to the end
dict_set(d, key, value) ==
    IF \E i \in 1..Len(d) : d[i].key = key
    THEN [i \in 1..Len(d) |-> IF d[i].key = key THEN [key |-> key, value |-> value] ELSE d[i]]
    ELSE Append(d, [key |-> key, value |-> value])

\* the hit built for one matching document
hit_of(doc_name, doc_data, query_lower) ==
    LET content == doc_data.content
        content_lower == lower(content)
        index == find(content_lower, query_lower)
        start == Max({0, index - SnippetRadius})
        end == Min({Len(content), index + SnippetRadius})
    IN  [document |-> doc_name,
         filename |-> doc_data.filename,
         type |-> doc_data.type,
         snippet |-> strip(slice(content, start, end)),
         relevance |-> count(content_lower, query_lower)]

\* the loop over self.documents.items(): one hit per document that contains the query
RECURSIVE collect_hits(_, _)
collect_hits(docs, query_lower) ==
    IF docs = <<>> THEN <<>>
    ELSE LET d == Head(docs)
             rest == collect_hits(Tail(docs), query_lower)
         IN  IF contains(lower(d.value.content), query_lower)
             THEN <<hit_of(d.key, d.value, query_lower)>> \o rest
             ELSE rest

\* results.sort(key=relevance, reverse=True): a stable sort, hits of equal relevance
\* keep their order.  x is placed after every hit of relevance >= its own.
RECURSIVE insert_desc_before_equal(_, _)
insert_desc_before_equal(sorted, x) ==
    IF sorted = <<>> THEN <<x>>
    ELSE IF Head(sorted).relevance > x.relevance
         THEN <<Head(sorted)>> \o insert_desc_before_equal(Tail(sorted), x)
         ELSE <<x>> \o sorted
RECURSIVE insert_desc(_, _)
insert_desc(sorted, x) ==
    IF sorted = <<>> THEN <<x>>
    ELSE IF Head(sorted).relevance >= x.relevance
         THEN <<Head(sorted)>> \o insert_desc(Tail(sorted), x)
         ELSE <<x>> \o sorted

RECURSIVE sort_by_relevance(_)
sort_by_relevance(results) ==
    IF results = <<>> THEN <<>>
    ELSE insert_desc(sort_by_relevance(SubSeq(results, 1, Len(results) - 1)),
                     results[Len(results)])

\* results[:limit] for limit >= 0
take(results, limit) == slice(results, 0, limit)

search_in_documents_result(docs, query, limit) ==
    take(sort_by_relevance(collect_hits(docs, lower(query))), limit)

\* json.dumps of one product: its keys and values in order (quotes and blanks left out)
json_dumps(item) ==
    IF ~item.dict THEN item.fields.v
    ELSE <<"{">>
         \o (IF "id" \in DOMAIN item.fields
             THEN <<"i", "d", ":">> \o item.fields.id \o <<",">> ELSE <<>>)
         \o (IF "name" \in DOMAIN item.fields
             THEN <<"n", "a", "m", "e", ":">> \o item.fields.name ELSE <<>>)
         \o (IF "price" \in DOMAIN item.fields
             THEN <<",", "p", "r", "i", "c", "e", ":">> \o item.fields.price ELSE <<>>)
         \o <<"}">>

RECURSIVE json_dumps_list(_)
json_dumps_list(items) ==
    IF items = <<>> THEN <<>>
    ELSE json_dumps(Head(items)) \o (IF Len(items) > 1 THEN <<",">> ELSE <<>>)
         \o json_dumps_list(Tail(items))

\* content_str = json.dumps(data, ...)
json_content(data) ==
    IF data.kind = "list" THEN <<"[">> \o json_dumps_list(data.items) \o <<"]">>
    ELSE <<"{">> \o <<"p", "r", "o", "d", "u", "c", "t", "s", ":", "[">>
         \o json_dumps_list(data.items) \o <<"]", "}">>

\* key = item.get('id', item.get('name'))
product_key(item) ==
    IF "id" \in DOMAIN item.fields THEN item.fields.id
    ELSE IF "name" \in DOMAIN item.fields THEN item.fields.name
    ELSE <<None>>

\* the loops of _load_json over the items: `'id' in item` and item.get(...) raise on
\* an item that is no dict, and the items stored before it stay in products_cache
RECURSIVE add_products(_, _, _)
add_products(products, items, need_id_or_name) ==
    IF items = <<>> THEN [products_cache |-> products, raised |-> FALSE]
    ELSE LET item == Head(items)
         IN  IF ~item.dict THEN [products_cache |-> products, raised |-> TRUE]
             ELSE IF need_id_or_name /\ DOMAIN item.fields \cap {"id", "name"} = {}
                  THEN add_products(products, Tail(items), need_id_or_name)
                  ELSE add_products(dict_set(products, product_key(item), item.fields),
                                    Tail(items), need_id_or_name)

\* self.documents[file_path.stem] = {..., 'type': ..., 'content': ...}
document_entry(docs, file, type, content) ==
    dict_set(docs, file.stem, [filename |-> file.stem \o file.ext, type |-> type,
                               content |-> content])

\* one round of the loop of load_all_documents: _load_txt or _load_json on the file
\* inside try/except, any other extension passed over
load_file(corpus, file) ==
    IF file.ext = <<".", "t", "x", "t">>
    THEN [documents |-> document_entry(corpus.documents, file, "text", file.text),
          products_cache |-> corpus.products_cache, raised |-> FALSE]
    ELSE IF file.ext = <<".", "j", "s", "o", "n">>
    THEN IF file.data.kind = "malformed"
         THEN \* json.load raises JSONDecodeError
              [documents |-> corpus.documents, products_cache |-> corpus.products_cache,
               raised |-> TRUE]
         ELSE LET added == add_products(corpus.products_cache, file.data.items,
                                        file.data.kind = "list")
              IN  [documents |-> document_entry(corpus.documents, file, "json",
                                                json_content(file.data)),
                   products_cache |-> added.products_cache,
                   raised |-> added.raised]
    ELSE [documents |-> corpus.documents, products_cache |-> corpus.products_cache,
          raised |-> FALSE]

EmptyCorpus == [documents |-> <<>>, products_cache |-> <<>>]

\* load_all_documents run from start to end on a directory
RECURSIVE load_files(_, _)
load_files(corpus, paths) ==
    IF paths = <<>> THEN corpus
    ELSE LET loaded == load_file(corpus, Head(paths))
         IN  load_files([documents |-> loaded.documents,
                         products_cache |-> loaded.products_cache], Tail(paths))

\* the loop of search_products: the limit is tested after the append
RECURSIVE scan_products(_, _, _, _)
scan_products(products, query_lower, limit, results) ==
    IF products = <<>> THEN results
    ELSE LET p == Head(products)
             text_to_search == lower(json_dumps([dict |-> TRUE, fields |-> p.value]))
             found_now == IF contains(text_to_search, query_lower)
                          THEN Append(results, [id |-> p.key, product |-> p.value])
                          ELSE results
         IN  IF Len(found_now) >= limit THEN found_now
             ELSE scan_products(Tail(products), query_lower, limit, found_now)

search_products_result(products, query, limit) ==
    scan_products(products, lower(query), limit, <<>>)

(* The directories, documents and queries the model runs on *)

Txt(stem, text) == [stem |-> stem, ext |-> <<".", "t", "x", "t">>, text |-> text,
                    data |-> [kind |-> "none", items |-> <<>>]]
Json(stem, data) == [stem |-> stem, ext |-> <<".", "j", "s", "o", "n">>, text |-> <<>>,
                     data |-> data]
Other(stem) == [stem |-> stem, ext |-> <<".", "m", "d">>, text |-> <<>>,
                data |-> [kind |-> "none", items |-> <<>>]]

Product(id, name) == [dict |-> TRUE, fields |-> [id |-> id, name |-> name]]
Named(name) == [dict |-> TRUE, fields |-> [name |-> name]]
Number(v) == [dict |-> FALSE, fields |-> [v |-> v]]

TextContents ==
    { <<"a">>,
      <<"a", "A", "a">>,
      <<"b", " ", "a", "b">>,
      <<"b", "b">>,
      <<"a", "b", "a", "b", "a">>,
      <<" ", " ">> }

JsonDatas ==
    { [kind |-> "list", items |-> <<Product(<<"p", "1">>, <<"a", "b">>),
                                    Product(<<"p", "2">>, <<"b">>)>>],
      [kind |-> "list", items |-> <<Product(<<"p", "1">>, <<"a", "b">>),
                                    Number(<<"5">>),
                                    Product(<<"p", "2">>, <<"b">>)>>],
      [kind |-> "malformed", items |-> <<>>],
      [kind |-> "object", items |-> <<Named(<<"a", "b">>)>>] }

\* file_paths: the files found under documents_dir
DirectoriesOver(texts1, texts2, datas) ==
    { <<Txt(<<"t", "1">>, t1), Other(<<"r">>), Txt(<<"t", "2">>, t2), Json(<<"p">>, j)>> :
        t1 \in texts1, t2 \in texts2, j \in datas }

Directories == DirectoriesOver(TextContents, TextContents, JsonDatas)
\* the directories reloaded while searches run
LoadDirectories == DirectoriesOver({<<"a">>}, {<<"b", "b">>, <<"a", "A", "a">>}, JsonDatas)

Queries == { <<"a">>, <<"A", "a">>, <<"b">>, <<" ">>, <<>>, <<"a", "b">> }
LoadQueries == { <<"a">>, <<"b">> }
Limits == 0..MaxLimit

----------------------------------------------------------------------------
(* Query expansion (Scripts/smart_document_handler.py) *)

\* the elements of a list
Range(f) == {f[i] : i \in DOMAIN f}

\* str.split(): the words between runs of whitespace
RECURSIVE split_acc(_, _, _)
split_acc(text, word, words) ==
    IF text = <<>> THEN (IF word = <<>> THEN words ELSE Append(words, word))
    ELSE IF is_space(Head(text))
         THEN split_acc(Tail(text), <<>>, IF word = <<>> THEN words ELSE Append(words, word))
         ELSE split_acc(Tail(text), Append(word, Head(text)), words)
split(text) == split_acc(text, <<>>, <<>>)

\* sep.join(words)
RECURSIVE join(_, _)
join(words, sep) ==
    IF words = <<>> THEN <<>>
    ELSE IF Len(words) = 1 THEN Head(words)
    ELSE Head(words) \o sep \o join(Tail(words), sep)

\* stop_words, written without their diacritics (same lengths as in the source)
stop_words ==
    { <<"l", "a">>, <<"g", "i">>, <<"n", "h", "u">>, <<"t", "h", "e">>, <<"n", "a", "o">>,
      <<"d", "u", "o", "c">>, <<"k", "h", "o", "n", "g">>, <<"c", "o">>,
      <<"c", "u", "a">>, <<"t", "h", "i">> }

\* len(w) > 2
MinKeywordLength == 2
\* keywords[:3] and len(keywords) <= 3 in the source, scaled down
MaxSingleKeywords == 2
\* [:5], "Max 5 queries" in the source, scaled down
MaxQueries == 3

is_keyword(w) == w \notin stop_words /\ Len(w) > MinKeywordLength

\* keywords = [w for w in words if w not in stop_words and len(w) > 2]
keywords_of(text) == SelectSeq(split(lower(text)), is_keyword)

\* the list `queries` of _simple_keyword_extraction before it is made a set
candidate_queries(text) ==
    LET keywords == keywords_of(text)
        full == IF Len(keywords) <= MaxSingleKeywords
                THEN <<join(keywords, <<" ">>)>> ELSE <<>>
        singles == SubSeq(keywords, 1, Min({MaxSingleKeywords, Len(keywords)}))
        bigrams == [i \in 1..(IF keywords = <<>> THEN 0 ELSE Len(keywords) - 1) |->
                       keywords[i] \o <<" ">> \o keywords[i + 1]]
    IN  full \o singles \o bigrams

\* the hash seeds the model runs on: 0..MaxHashSeed
MaxHashSeed == 23

\* the elements of a list, each once, in the order of their first occurrence
RECURSIVE distinct(_)
distinct(queries) ==
    IF queries = <<>> THEN <<>>
    ELSE LET front == distinct(SubSeq(queries, 1, Len(queries) - 1))
             q == queries[Len(queries)]
         IN  IF q \in Range(front) THEN front ELSE Append(front, q)

\* the seed-th arrangement of a list: seed is read as a number in the factorial
\* number system, each digit picking the next element among those left
RECURSIVE arranged(_, _)
arranged(items, seed) ==
    IF items = <<>> THEN <<>>
    ELSE LET k == (seed % Len(items)) + 1
         IN  <<items[k]>>
             \o arranged(SubSeq(items, 1, k - 1) \o SubSeq(items, k + 1, Len(items)),
                         seed \div Len(items))

\* list(queries) listed by the seed, duplicates kept
list_of_queries(queries, seed) == arranged(queries, seed)
\* list(set(queries)): each string once, in the order the hashes of the strings
\* give; the hashes depend on the seed of the process and on nothing else, so
\* the order is a function of the strings and the seed
list_of_set(queries, seed) == arranged(distinct(queries), seed)

\* _simple_keyword_extraction(text) in a process with this hash seed
simple_keyword_extraction(text, seed) ==
    take(list_of_set(candidate_queries(text), seed), MaxQueries)

\* what rewrite_query hands back: a list of queries, or whatever else the rewrite
\* output carried under search_queries (here a string)
ListResult(items) == [is_list |-> TRUE, items |-> items, text |-> <<>>]
TextResult(text) == [is_list |-> FALSE, items |-> <<>>, text |-> text]

\* the output of self.model.generate as rewrite_query takes it apart: the call
\* raises, the text holds no {...}, json.loads fails on it, or it yields a dict
Raises == [kind |-> "raises", has_topic |-> FALSE, main_topic |-> None,
           has_entities |-> FALSE, entities |-> <<>>,
           queries_kind |-> "missing", search_queries |-> <<>>, search_text |-> <<>>]
NoJson == [Raises EXCEPT !.kind = "no_json"]
BadJson == [Raises EXCEPT !.kind = "bad_json"]
Object == [Raises EXCEPT !.kind = "object"]

\* json_match and json.loads both succeed
parsed(response) == response.kind = "object"

\* {'topic': data.get('main_topic'), 'entities': data.get('entities', [])}
topic_context(data) ==
    [topic |-> IF data.has_topic THEN data.main_topic ELSE None,
     entities |-> IF data.has_entities THEN data.entities ELSE <<>>]

\* self.conversation_context[session_id] = {...}
save_context_merged(context, session_id, data) ==
    [s \in DOMAIN context \cup {session_id} |->
        IF s # session_id THEN context[s]
        ELSE IF session_id \in DOMAIN context /\ ~data.has_topic
             THEN [topic_context(data) EXCEPT !.topic = context[session_id].topic]
             ELSE topic_context(data)]
\* one dict object stored for every session: the write shows in all of them
save_context_shared(context, session_id, data) ==
    [s \in DOMAIN context \cup {session_id} |-> topic_context(data)]
save_context(context, session_id, data) ==
    [s \in DOMAIN context \cup {session_id} |->
        IF s = session_id THEN topic_context(data) ELSE context[s]]

\* whether the call stores a context: `if json_match:` ... `if session_id:`
context_saved_on_match(has_model, session_id, response) ==
    has_model /\ response.kind \in {"object", "bad_json"} /\ ~Falsy(session_id)
context_saved(has_model, session_id, response) ==
    has_model /\ parsed(response) /\ ~Falsy(session_id)

\* the previous topic put into the prompt: context = f"...{prev_topic}", else ""
prior_topic(has_model, context, session_id) ==
    IF /\ has_model
       /\ ~Falsy(session_id)
       /\ session_id \in DOMAIN context
       /\ ~Falsy(context[session_id].topic)
    THEN context[session_id].topic
    ELSE EmptyStr

\* queries = data.get('search_queries', [])
returned_queries(data) ==
    IF data.queries_kind = "list" THEN ListResult(data.search_queries)
    ELSE IF data.queries_kind = "text" THEN TextResult(data.search_text)
    ELSE ListResult(<<>>)

\* rewrite_query(user_input, session_id) with the model answering `response`:
\* every outcome it can have, as [path, embedded, result, context]
rewrite_query_outcomes(has_model, seed, context, user_input, session_id, response) ==
    LET after == IF context_saved(has_model, session_id, response)
                 THEN save_context(context, session_id, response)
                 ELSE context
        embedded == prior_topic(has_model, context, session_id)
    IN  IF has_model /\ parsed(response)
        THEN {[path |-> "llm", embedded |-> embedded,
               result |-> returned_queries(response), context |-> after]}
        ELSE {[path |-> "fallback", embedded |-> embedded,
               result |-> ListResult(simple_keyword_extraction(user_input, seed)),
               context |-> after]}

(* The utterances and model outputs the model runs on *)

HashSeeds == 0..MaxHashSeed

Utterances ==
    { <<"l", "a", " ", "g", "i">>,
      <<"a", "b", " ", "a">>,
      <<"A", "b", "a">>,
      <<"a", "b", "a", " ", "n", "h", "u", " ", "b", "a", "b">>,
      <<"a", "b", "a", " ", "b", "a", "b", " ", "a", "b", "a">> }

\* the utterances used where the sessions and their contexts are varied
ContextUtterances ==
    { <<"A", "b", "a">>,
      <<"a", "b", "a", " ", "n", "h", "u", " ", "b", "a", "b">> }

Responses ==
    { Raises, NoJson, BadJson,
      Object,
      [Object EXCEPT !.has_topic = TRUE, !.main_topic = "t1",
                     !.has_entities = TRUE, !.entities = <<"e1">>,
                     !.queries_kind = "list",
                     !.search_queries = << <<"a">>, <<"a", "b">> >>],
      [Object EXCEPT !.queries_kind = "text", !.search_text = <<"a", "b">>],
      [Object EXCEPT !.has_topic = TRUE, !.main_topic = "t1",
                     !.has_entities = TRUE, !.entities = <<"e1">>,
                     !.queries_kind = "list", !.search_queries = <<>>],
      [Object EXCEPT !.has_entities = TRUE, !.entities = <<"e2">>,
                     !.queries_kind = "list",
                     !.search_queries = << <<"a">>, <<"b">>, <<"a">>, <<"a", "b">> >>] }

----------------------------------------------------------------------------
(* Aggregation and rendering (smart_search, get_context_aware_info).  The text *)
(* literals are written without diacritics and with '-', '*' and '#' for the    *)
(* rule, bullet and pictograph characters: one character for each code point. *)

\* search_in_documents(query, limit=2) and search_products(query, limit=2)
PerQueryLimit == 2
\* self.smart_search(user_input, session_id, limit=3)
ContextLimit == 3

\* `for query in queries`: the items of a list, the characters of a string
query_sequence(queries) ==
    IF queries.is_list THEN queries.items
    ELSE [i \in 1..Len(queries.text) |-> <<queries.text[i]>>]

\* the loop over docs with every hit appended, seen or not
RECURSIVE merge_docs_unseen(_, _)
merge_docs_unseen(all_doc_results, docs) ==
    IF docs = <<>> THEN all_doc_results
    ELSE merge_docs_unseen(Append(all_doc_results, Head(docs)), Tail(docs))
\* the loop over docs with a later hit taking the place of the one kept
RECURSIVE merge_docs_replacing(_, _)
merge_docs_replacing(all_doc_results, docs) ==
    IF docs = <<>> THEN all_doc_results
    ELSE LET doc == Head(docs)
             seen_docs == {all_doc_results[i].filename : i \in DOMAIN all_doc_results}
         IN  merge_docs_replacing(
                 IF doc.filename \notin seen_docs THEN Append(all_doc_results, doc)
                 ELSE [i \in DOMAIN all_doc_results |->
                          IF all_doc_results[i].filename = doc.filename THEN doc
                          ELSE all_doc_results[i]],
                 Tail(docs))
\* the loop over docs: a hit is appended unless its filename is in seen_docs, which
\* holds the filenames of the hits appended so far
RECURSIVE merge_docs(_, _)
merge_docs(all_doc_results, docs) ==
    IF docs = <<>> THEN all_doc_results
    ELSE LET doc == Head(docs)
             seen_docs == {all_doc_results[i].filename : i \in DOMAIN all_doc_results}
         IN  merge_docs(IF doc.filename \notin seen_docs
                        THEN Append(all_doc_results, doc) ELSE all_doc_results,
                        Tail(docs))

\* prod['id'] of {'id': product_id, **product_data}: the id of the data wins
prod_id(prod) ==
    IF "id" \in DOMAIN prod.product THEN prod.product.id ELSE prod.id
\* prod.get('id', prod.get('name')): every returned product has the key 'id'
prod_key(prod) == prod_id(prod)

\* the loop over products, same shape as the loop over docs
RECURSIVE merge_products(_, _)
merge_products(all_product_results, products) ==
    IF products = <<>> THEN all_product_results
    ELSE LET prod == Head(products)
             seen_products == {prod_key(all_product_results[i]) :
                                 i \in DOMAIN all_product_results}
         IN  merge_products(IF prod_key(prod) \notin seen_products
                            THEN Append(all_product_results, prod)
                            ELSE all_product_results,
                            Tail(products))

\* the loop over the queries: both searches for each, merged into the two lists
RECURSIVE gather(_, _, _, _)
gather(docs, products, queries, all) ==
    IF queries = <<>> THEN all
    ELSE LET query == Head(queries)
         IN  gather(docs, products, Tail(queries),
                    [documents |-> merge_docs(all.documents,
                         search_in_documents_result(docs, query, PerQueryLimit)),
                     products |-> merge_products(all.products,
                         search_products_result(products, query, PerQueryLimit))])

\* the end of smart_search with the documents cut but left in discovery order
cut_results_unsorted(all, limit) ==
    [documents |-> take(all.documents, limit), products |-> take(all.products, limit)]
\* the end of smart_search: documents sorted and cut, products cut
cut_results(all, limit) ==
    [documents |-> take(sort_by_relevance(all.documents), limit),
     products |-> take(all.products, limit)]

\* smart_search after rewrite_query returned `queries`
smart_search_result(docs, products, queries, limit) ==
    cut_results(gather(docs, products, query_sequence(queries),
                       [documents |-> <<>>, products |-> <<>>]), limit)

\* the rule line of the headers: 40 characters
Rule ==
    <<"-", "-", "-", "-", "-", "-", "-", "-", "-", "-", "-", "-", "-", "-", "-", "-",
      "-", "-", "-", "-", "-", "-", "-", "-", "-", "-", "-", "-", "-", "-", "-",
      "-", "-", "-", "-", "-", "-", "-", "-", "-">>
\* the three header lines above the document hits
DocumentsHeader ==
    <<"\n", "\n">> \o Rule \o <<"\n">>
    \o <<"#", " ", "T", "H", "O", "N", "G", " ", "T", "I", "N", " ", "T", "U", " ",
         "T", "A", "I", " ", "L", "I", "E", "U", ":", "\n">>
    \o Rule \o <<"\n">>
\* the three header lines above the products
ProductsHeader ==
    <<"\n", "\n">> \o Rule \o <<"\n">>
    \o <<"#", "#", " ", "T", "H", "O", "N", "G", " ", "T", "I", "N", " ", "S", "A", "N",
         " ", "P", "H", "A", "M", ":", "\n">>
    \o Rule \o <<"\n">>
TruncationMarker ==
    <<"\n", "\n", ".", ".", ".", " ", "(", "N", "o", "i", " ", "d", "u", "n", "g", " ",
      "b", "i", " ", "c", "a", "t", " ", "n", "g", "a", "n", ")">>
NotFoundText ==
    <<"\n", "\n", "#", "#", " ", "K", "h", "o", "n", "g", " ", "t", "i", "m", " ", "t",
      "h", "a", "y", " ", "t", "h", "o", "n", "g", " ", "t", "i", "n", " ", "l",
      "i", "e", "n", " ", "q", "u", "a", "n", " ", "t", "r", "o", "n", "g", " ",
      "t", "a", "i", " ", "l", "i", "e", "u", ".", "\n">>

\* str(value) inside an f-string
str_of(value) == IF value = <<None>> THEN <<"N", "o", "n", "e">> ELSE value

\* the fields get_context_aware_info prints for a product, in its order
PrintedFields ==
    << [field |-> "type", text |-> <<"t", "y", "p", "e">>],
       [field |-> "color", text |-> <<"c", "o", "l", "o", "r">>],
       [field |-> "price", text |-> <<"p", "r", "i", "c", "e">>],
       [field |-> "description",
        text |-> <<"d", "e", "s", "c", "r", "i", "p", "t", "i", "o", "n">>],
       [field |-> "weights", text |-> <<"w", "e", "i", "g", "h", "t", "s">>] >>

RECURSIVE render_docs(_)
render_docs(docs) ==
    IF docs = <<>> THEN <<>>
    ELSE <<"\n", "[">> \o Head(docs).filename \o <<"]", "\n">>
         \o Head(docs).snippet \o <<"\n">> \o render_docs(Tail(docs))

RECURSIVE render_fields(_, _)
render_fields(prod, fields) ==
    IF fields = <<>> THEN <<>>
    ELSE (IF Head(fields).field \in DOMAIN prod.product
          THEN <<" ", " ", " ", "*", " ">> \o Head(fields).text \o <<":", " ">>
               \o str_of(prod.product[Head(fields).field]) \o <<"\n">>
          ELSE <<>>)
         \o render_fields(prod, Tail(fields))

RECURSIVE render_products(_)
render_products(products) ==
    IF products = <<>> THEN <<>>
    ELSE LET prod == Head(products)
             name == IF "name" \in DOMAIN prod.product THEN prod.product.name
                     ELSE prod_id(prod)
         IN  <<"\n", "#", " ">> \o str_of(name) \o <<":", "\n">>
             \o render_fields(prod, PrintedFields) \o render_products(Tail(products))

\* context as built from the results, before it is cut
render(results) ==
    (IF results.documents # <<>>
     THEN DocumentsHeader \o render_docs(results.documents) ELSE <<>>)
    \o (IF results.products # <<>>
        THEN ProductsHeader \o render_products(results.products) ELSE <<>>)

\* the cut with the marker appended to the whole text
truncate_context_uncut(context, max_length) ==
    IF Len(context) > max_length THEN context \o TruncationMarker ELSE context
\* context[:max_length] + marker when the text is longer than max_length >= 0
truncate_context(context, max_length) ==
    IF Len(context) > max_length
    THEN slice(context, 0, max_length) \o TruncationMarker ELSE context

\* the text returned as cut, with no test for the empty text
returned_context_as_cut(context, max_length) == truncate_context(context, max_length)
\* what get_context_aware_info returns for the text it built
returned_context(context, max_length) ==
    LET cut == truncate_context(context, max_length)
    IN  IF cut = <<>> THEN NotFoundText ELSE cut

----------------------------------------------------------------------------
(* State *)

NoAppends == [s \in RealSessions |-> [a \in KnownAgents |-> <<>>]]

\* no cleanup_old_sessions call in progress
NoSweep == [pc |-> "idle", age |-> 0, current_time |-> 0, keys |-> {},
            visited |-> {}, to_delete |-> <<>>, exc |-> "none"]

MemInit ==
    /\ memory = <<>>
    /\ now = 0
    /\ last = NoCall
    /\ nAdds = 0
    /\ appended = NoAppends
    /\ cleared = {}

\* the two requests in flight, none received yet
Requests == {"r1", "r2"}
NoRequest == [pc |-> "idle", sid |-> None, agent |-> "consulting", history |-> <<>>,
              turns |-> <<>>, added |-> <<>>, exc |-> "none"]

\* no load_all_documents call made yet
NoLoad == [pc |-> "new", todo |-> <<>>, old |-> EmptyCorpus, errors |-> {}]
\* no search made yet
NoSearch == [op |-> "none", query |-> <<>>, limit |-> 0, hits |-> <<>>, products |-> <<>>]

\* DocumentHandler.__init__: both caches empty
CorpusInit ==
    /\ documents = <<>>
    /\ products_cache = <<>>
    /\ load = NoLoad
    /\ found = NoSearch

\* no rewrite_query call made yet
NoRewrite == [op |-> "none", user_input |-> <<>>, sid |-> None, response |-> Raises,
              path |-> "none", embedded |-> EmptyStr, result |-> ListResult(<<>>)]
\* no get_context_aware_info call made yet
NoInfo == [op |-> "none", max_length |-> 0, queries |-> ListResult(<<>>), documents |-> <<>>,
           products |-> <<>>, rendered |-> <<>>, context |-> <<>>]

\* SmartDocumentHandler.__init__: no context kept for any session
SmartInit ==
    /\ conversation_context = <<>>
    /\ rew = NoRewrite
    /\ info = NoInfo

Init ==
    /\ MemInit
    /\ sweep = NoSweep
    /\ req = [r \in Requests |-> NoRequest]
    /\ running = None
    /\ file_paths = <<>>
    /\ CorpusInit
    /\ hash_seed = 0
    /\ model = TRUE
    /\ SmartInit

\* datetime.now() moves forward between calls
Tick ==
    /\ now < MaxTime
    /\ now' = now + 1
    /\ last' = [NoCall EXCEPT !.op = "tick"]
    /\ UNCHANGED <<memory, nAdds, appended, cleared>>
    /\ UNCHANGED nonMemVars

get_history(sid, agent) ==
    /\ IF no_session(sid)
       THEN /\ memory' = memory
            /\ last' = Call("get_history", sid, agent)
       ELSE /\ memory' = ensure_session(memory, sid)
            /\ last' = [Call("get_history", sid, agent)
                          EXCEPT !.hist = history_of(memory', sid, agent)]
    /\ UNCHANGED <<now, nAdds, appended, cleared>>
    /\ UNCHANGED nonMemVars

add_message(sid, agent, role, content) ==
    /\ nAdds < MaxAdds
    /\ nAdds' = nAdds + 1
    /\ IF no_session(sid)
       THEN /\ memory' = memory
            /\ last' = Call("add_message", sid, agent)
            /\ UNCHANGED <<appended, cleared>>
       ELSE LET ensured == ensure_session(memory, sid)
                entry == Entry(role, content, now)
            IN  /\ cleared' = cleared \ {sid}
                /\ IF agent \in DOMAIN ensured[sid]
                   THEN /\ memory' = append_entry(ensured, sid, agent, entry)
                        /\ last' = Call("add_message", sid, agent)
                        /\ appended' = [appended EXCEPT ![sid][agent] = Append(@, entry)]
                   ELSE \* self.memory[session_id][agent] raises KeyError
                        /\ memory' = ensured
                        /\ last' = [Call("add_message", sid, agent) EXCEPT !.exc = "KeyError"]
                        /\ appended' = appended
    /\ UNCHANGED now
    /\ UNCHANGED nonMemVars

clear_session(sid, agent) ==
    /\ IF sid \notin DOMAIN memory
       THEN /\ memory' = memory
            /\ last' = Call("clear_session", sid, agent)
            /\ UNCHANGED <<appended, cleared>>
       ELSE IF ~Falsy(agent)
            THEN IF agent \in DOMAIN memory[sid]
                 THEN /\ memory' = clear_agent(memory, sid, agent)
                      /\ last' = [Call("clear_session", sid, agent) EXCEPT !.ok = TRUE]
                      /\ appended' = [appended EXCEPT ![sid][agent] = <<>>]
                      /\ UNCHANGED cleared
                 ELSE /\ memory' = memory
                      /\ last' = [Call("clear_session", sid, agent)
                                    EXCEPT !.ok = agent_not_found_return]
                      /\ UNCHANGED <<appended, cleared>>
            ELSE /\ memory' = delete_session(memory, sid)
                 /\ last' = [Call("clear_session", sid, agent) EXCEPT !.ok = TRUE]
                 /\ appended' = [appended EXCEPT ![sid] = NoAppends[sid]]
                 /\ cleared' = cleared \cup {sid}
    /\ UNCHANGED <<now, nAdds>>
    /\ UNCHANGED nonMemVars

cleanup_old_sessions(max_age_hours) ==
    LET doomed == sessions_to_delete(memory, now, max_age_hours)
    IN  /\ memory' = [x \in DOMAIN memory \ doomed |-> memory[x]]
        /\ last' = [NoCall EXCEPT !.op = "cleanup_old_sessions",
                                  !.age = max_age_hours,
                                  !.n = Cardinality(doomed)]
        /\ appended' = [s \in RealSessions |->
                          IF s \in doomed THEN NoAppends[s] ELSE appended[s]]
        /\ UNCHANGED <<now, nAdds, cleared>>
        /\ UNCHANGED nonMemVars

\* get_session_info(session_id): reads the map, returns whether the session exists
get_session_info(sid) ==
    /\ last' = [Call("get_session_info", sid, None) EXCEPT !.ok = (sid \in DOMAIN memory)]
    /\ UNCHANGED <<memory, now, nAdds, appended, cleared>>
    /\ UNCHANGED nonMemVars

\* get_active_sessions(): len(self.memory)
get_active_sessions ==
    /\ last' = [NoCall EXCEPT !.op = "get_active_sessions", !.n = Cardinality(DOMAIN memory)]
    /\ UNCHANGED <<memory, now, nAdds, appended, cleared>>
    /\ UNCHANGED nonMemVars

Next ==
    \/ Tick
    \/ \E sid \in SessionIds, agent \in CalledAgents : get_history(sid, agent)
    \/ \E sid \in SessionIds, agent \in CalledAgents, role \in CalledRoles, content \in Contents :
          add_message(sid, agent, role, content)
    \/ \E sid \in SessionIds, agent \in ClearAgents : clear_session(sid, agent)
    \/ \E max_age_hours \in 0..MaxAge : cleanup_old_sessions(max_age_hours)
    \/ \E sid \in RealSessions : get_session_info(sid)
    \/ get_active_sessions

Spec == Init /\ [][Next]_vars

----------------------------------------------------------------------------
(* cleanup_old_sessions run beside other calls: the sweep takes one step per      *)
(* session scanned and one per session deleted, and calls of other requests run  *)
(* between its steps.  No lock guards self.memory.                               *)

\* current_time = datetime.now(); the for statement creates the iterator of self.memory.items()
sweep_start(max_age_hours) ==
    /\ sweep.pc = "idle"
    /\ sweep' = [NoSweep EXCEPT !.pc = "scan", !.age = max_age_hours,
                                !.current_time = now, !.keys = DOMAIN memory]
    /\ UNCHANGED <<memVars, loopVars, corpusVars, smartVars>>

\* one round of `for session_id, agents in self.memory.items()`: the dict iterator
\* raises RuntimeError when the dict changed size since the iterator was made, and
\* may raise it when keys were replaced at the same size
sweep_scan ==
    /\ sweep.pc = "scan"
    /\ \/ /\ DOMAIN memory # sweep.keys
          /\ sweep' = [sweep EXCEPT !.pc = "raised", !.exc = "RuntimeError"]
       \/ /\ Cardinality(DOMAIN memory) = Cardinality(sweep.keys)
          /\ \E s \in DOMAIN memory \ sweep.visited :
                sweep' = [sweep EXCEPT
                            !.visited = @ \cup {s},
                            !.to_delete = IF is_old(memory[s], sweep.current_time, sweep.age)
                                          THEN Append(@, s) ELSE @]
       \/ /\ Cardinality(DOMAIN memory) = Cardinality(sweep.keys)
          /\ DOMAIN memory \subseteq sweep.visited
          /\ sweep' = [sweep EXCEPT !.pc = "delete"]
    /\ UNCHANGED <<memVars, loopVars, corpusVars, smartVars>>

\* one round of `for session_id in sessions_to_delete: del self.memory[session_id]`
sweep_delete ==
    /\ sweep.pc = "delete"
    /\ sweep.to_delete # <<>>
    /\ LET s == Head(sweep.to_delete)
       IN  IF s \in DOMAIN memory
           THEN /\ memory' = delete_session(memory, s)
                /\ appended' = [appended EXCEPT ![s] = NoAppends[s]]
                /\ sweep' = [sweep EXCEPT !.to_delete = Tail(@)]
           ELSE \* del self.memory[session_id] raises KeyError
                /\ sweep' = [sweep EXCEPT !.pc = "raised", !.exc = "KeyError"]
                /\ UNCHANGED <<memory, appended>>
    /\ UNCHANGED <<now, last, nAdds, cleared>>
    /\ UNCHANGED <<loopVars, corpusVars, smartVars>>

\* return len(sessions_to_delete)
sweep_return ==
    /\ sweep.pc = "delete"
    /\ sweep.to_delete = <<>>
    /\ sweep' = [sweep EXCEPT !.pc = "done"]
    /\ UNCHANGED <<memVars, loopVars, corpusVars, smartVars>>

SweepNext ==
    \/ Tick
    \/ \E sid \in RealSessions : get_history(sid, "consulting")
    \/ \E sid \in RealSessions : add_message(sid, "consulting", "user", "hi")
    \/ \E sid \in RealSessions, agent \in {None, "consulting"} : clear_session(sid, agent)
    \/ \E max_age_hours \in 0..MaxAge : sweep_start(max_age_hours)
    \/ sweep_scan
    \/ sweep_delete
    \/ sweep_return

SweepSpec == Init /\ [][SweepNext]_vars

----------------------------------------------------------------------------
(* The consulting endpoint under the asyncio event loop of uvicorn.  The loop   *)
(* runs one coroutine at a time and changes coroutine only where the running    *)
(* one awaits.  consulting_endpoint is `async def` and its body has no await.   *)

\* whether the completion call gives the event loop back while it waits:
\* agent_service.consulting_agent(...) -> self.model.generate(...) are plain
\* synchronous calls made inside the coroutine
completion_awaited == TRUE
completion_yields == FALSE

\* whether AgentService has a sheets_handler attribute: __init__ assigns none and
\* nothing else in the source sets one
sheets_handler_assigned == FALSE

\* ModelHandler.generate keeps the last 10 turns of the history; scaled down
HistoryWindow == 1

\* conversation_history[-10:] (a new list), or [] when the history is empty
recent_turns(conversation_history) ==
    IF Len(conversation_history) > HistoryWindow
    THEN SubSeq(conversation_history, Len(conversation_history) - HistoryWindow + 1,
                Len(conversation_history))
    ELSE conversation_history

\* the turn generate adds for the current utterance: a dict of role and content
UserTurn(user_input) == [role |-> "user", content |-> user_input]

\* history = conversation_history without the slice: both names are one list, and
\* the append shows in the caller's list
generate_lists_in_place(conversation_history, user_input) ==
    [conversation_history |-> Append(conversation_history, UserTurn(user_input)),
     history |-> Append(conversation_history, UserTurn(user_input))]

\* generate: history = conversation_history[-10:]; history.append({...}).  Gives
\* the caller's list as the call leaves it and the list the prompt is built from.
generate_lists(conversation_history, user_input) ==
    [conversation_history |-> conversation_history,
     history |-> Append(recent_turns(conversation_history), UserTurn(user_input))]

\* a request arrives and its handler task is queued on the loop
receive(r, sid) ==
    /\ req[r].pc = "idle"
    /\ req' = [req EXCEPT ![r] = [NoRequest EXCEPT !.pc = "queued", !.sid = sid]]
    /\ UNCHANGED <<running, memVars, sweepVars, corpusVars, smartVars>>

\* a request arrives at POST /agent/<agent>
receive_agent(r, sid, agent) ==
    /\ req[r].pc = "idle"
    /\ req' = [req EXCEPT ![r] = [NoRequest EXCEPT !.pc = "queued", !.sid = sid,
                                                    !.agent = agent]]
    /\ UNCHANGED <<running, memVars, sweepVars, corpusVars, smartVars>>

\* the loop, when free, starts the coroutine of a queued request
handler_start(r) ==
    /\ req[r].pc = "queued"
    /\ running = None
    /\ running' = r
    /\ req' = [req EXCEPT ![r].pc = IF req[r].agent = "check_order"
                                    THEN "check_sheets" ELSE "read"]
    /\ UNCHANGED <<memVars, sweepVars, corpusVars, smartVars>>

\* history = memory_manager.get_history(request.session_id, agent='consulting')
handler_read(r) ==
    /\ req[r].pc = "read"
    /\ running = r
    /\ LET sid == req[r].sid
       IN  IF no_session(sid)
           THEN /\ memory' = memory
                /\ req' = [req EXCEPT ![r].pc = "call", ![r].history = <<>>]
           ELSE /\ memory' = ensure_session(memory, sid)
                /\ req' = [req EXCEPT ![r].pc = "call",
                                      ![r].history = history_of(memory', sid, req[r].agent)]
    /\ UNCHANGED <<running, now, last, nAdds, appended, cleared, sweepVars, corpusVars, smartVars>>

\* check_order_endpoint: `if not agent_service.sheets_handler` is evaluated before
\* the history is read; the attribute does not exist, so the read raises
handler_check_sheets(r) ==
    /\ req[r].pc = "check_sheets"
    /\ running = r
    /\ req' = IF sheets_handler_assigned
              THEN [req EXCEPT ![r].pc = "read"]
              ELSE [req EXCEPT ![r].pc = "raised", ![r].exc = "AttributeError"]
    /\ UNCHANGED <<running, memVars, sweepVars, corpusVars, smartVars>>

\* output = agent_service.consulting_agent(...): the completion call goes out
completion_call(r) ==
    /\ req[r].pc = "call"
    /\ running = r
    /\ LET sid == req[r].sid
           agent == req[r].agent
           \* get_history returned self.memory[sid][agent] itself, not a copy
           stored == ~no_session(sid) /\ sid \in DOMAIN memory /\ agent \in DOMAIN memory[sid]
           lists == generate_lists(IF stored THEN memory[sid][agent] ELSE req[r].history, "hi")
       IN  /\ req' = [req EXCEPT ![r].pc = "in_completion", ![r].turns = lists.history]
           /\ memory' = IF stored
                        THEN [memory EXCEPT ![sid][agent] = lists.conversation_history]
                        ELSE memory
    /\ running' = IF completion_yields THEN None ELSE r
    /\ UNCHANGED <<now, last, nAdds, appended, cleared, sweepVars, corpusVars, smartVars>>

\* the completion call returns its output to the handler
completion_return(r) ==
    /\ req[r].pc = "in_completion"
    /\ running = IF completion_yields THEN None ELSE r
    /\ running' = r
    /\ req' = [req EXCEPT ![r].pc = "append_user"]
    /\ UNCHANGED <<memVars, sweepVars, corpusVars, smartVars>>

\* if request.session_id: memory_manager.add_message(sid, 'consulting', role, ...)
handler_append(r, role, content, next_pc) ==
    /\ running = r
    /\ LET sid == req[r].sid
           agent == req[r].agent
           ensured == ensure_session(memory, sid)
       IN  IF Falsy(sid)
           THEN /\ memory' = memory
                /\ req' = [req EXCEPT ![r].pc = next_pc]
           ELSE IF agent \in DOMAIN ensured[sid]
                THEN /\ memory' = append_entry(ensured, sid, agent, Entry(role, content, now))
                     /\ req' = [req EXCEPT ![r].pc = next_pc, ![r].added = Append(@, role)]
                ELSE \* self.memory[session_id][agent] raises KeyError
                     /\ memory' = ensured
                     /\ req' = [req EXCEPT ![r].pc = "raised", ![r].exc = "KeyError"]
    /\ UNCHANGED <<running, now, last, nAdds, appended, cleared, sweepVars, corpusVars, smartVars>>

handler_append_user(r) ==
    /\ req[r].pc = "append_user"
    /\ handler_append(r, "user", "hi", "append_assistant")

handler_append_assistant(r) ==
    /\ req[r].pc = "append_assistant"
    /\ handler_append(r, "assistant", "out", "respond")

\* except Exception as e: raise HTTPException(status_code=500, ...): the coroutine
\* ends with an error response and the loop is free again
handler_fail(r) ==
    /\ req[r].pc = "raised"
    /\ running = r
    /\ running' = None
    /\ req' = [req EXCEPT ![r].pc = "failed"]
    /\ UNCHANGED <<memVars, sweepVars, corpusVars, smartVars>>

\* return AgentResponse(...): the coroutine ends and the loop is free again
handler_return(r) ==
    /\ req[r].pc = "respond"
    /\ running = r
    /\ running' = None
    /\ req' = [req EXCEPT ![r].pc = "done"]
    /\ UNCHANGED <<memVars, sweepVars, corpusVars, smartVars>>

LoopNext ==
    \/ Tick
    \/ \E r \in Requests, sid \in SessionIds : receive(r, sid)
    \/ \E r \in Requests : handler_start(r)
    \/ \E r \in Requests : handler_read(r)
    \/ \E r \in Requests : completion_call(r)
    \/ \E r \in Requests : completion_return(r)
    \/ \E r \in Requests : handler_append_user(r)
    \/ \E r \in Requests : handler_append_assistant(r)
    \/ \E r \in Requests : handler_return(r)

LoopSpec == Init /\ [][LoopNext]_vars

\* the four agent endpoints under the same loop
TurnNext ==
    \/ Tick
    \/ \E r \in Requests, sid \in SessionIds, agent \in RoutedAgents : receive_agent(r, sid, agent)
    \/ \E r \in Requests : handler_start(r)
    \/ \E r \in Requests : handler_check_sheets(r)
    \/ \E r \in Requests : handler_read(r)
    \/ \E r \in Requests : completion_call(r)
    \/ \E r \in Requests : completion_return(r)
    \/ \E r \in Requests : handler_append_user(r)
    \/ \E r \in Requests : handler_append_assistant(r)
    \/ \E r \in Requests : handler_return(r)
    \/ \E r \in Requests : handler_fail(r)

TurnSpec == Init /\ [][TurnNext]_vars

----------------------------------------------------------------------------
(* The document corpus: load_all_documents run one file at a time, with the     *)
(* searches of requests running between its rounds.                             *)

\* self.documents.clear(); self.products_cache.clear(); file_paths = list(rglob)
load_begin ==
    /\ load.pc \in {"new", "loaded"}
    /\ documents' = <<>>
    /\ products_cache' = <<>>
    /\ load' = [pc |-> "loading", todo |-> file_paths,
                old |-> [documents |-> documents, products_cache |-> products_cache],
                errors |-> {}]
    /\ UNCHANGED <<file_paths, found, memVars, sweepVars, loopVars, smartVars>>

\* one round of `for file_path in file_paths: try: ... except Exception: logger.error`
load_next_file ==
    /\ load.pc = "loading"
    /\ load.todo # <<>>
    /\ LET file == Head(load.todo)
           loaded == load_file([documents |-> documents,
                                products_cache |-> products_cache], file)
       IN  /\ documents' = loaded.documents
           /\ products_cache' = loaded.products_cache
           /\ load' = [load EXCEPT !.todo = Tail(@),
                                   !.errors = IF loaded.raised THEN @ \cup {file.stem} ELSE @]
    /\ UNCHANGED <<file_paths, found, memVars, sweepVars, loopVars, smartVars>>

\* the loop is over: the summary is logged and the call returns
load_end ==
    /\ load.pc = "loading"
    /\ load.todo = <<>>
    /\ load' = [load EXCEPT !.pc = "loaded"]
    /\ UNCHANGED <<file_paths, documents, products_cache, found, memVars, sweepVars, loopVars, smartVars>>

search_in_documents(query, limit) ==
    /\ found' = [NoSearch EXCEPT !.op = "search_in_documents", !.query = query,
                                 !.limit = limit,
                                 !.hits = search_in_documents_result(documents, query, limit)]
    /\ UNCHANGED <<file_paths, documents, products_cache, load, memVars, sweepVars, loopVars, smartVars>>

\* product_data['id'] = product_id; results.append(product_data) in place of the
\* new dict: every product returned gets an id written into its stored entry
search_products_in_place(query, limit) ==
    LET results == search_products_result(products_cache, query, limit)
        ids == {results[i].id : i \in DOMAIN results}
    IN  /\ found' = [NoSearch EXCEPT !.op = "search_products", !.query = query,
                                     !.limit = limit, !.products = results]
        /\ products_cache' =
              [i \in DOMAIN products_cache |->
                  IF products_cache[i].key \in ids
                  THEN [key |-> products_cache[i].key,
                        value |-> [f \in DOMAIN products_cache[i].value \cup {"id"} |->
                                     IF f = "id" THEN products_cache[i].key
                                     ELSE products_cache[i].value[f]]]
                  ELSE products_cache[i]]
        /\ UNCHANGED <<file_paths, documents, load, memVars, sweepVars, loopVars, smartVars>>

search_products(query, limit) ==
    /\ found' = [NoSearch EXCEPT !.op = "search_products", !.query = query,
                                 !.limit = limit,
                                 !.products = search_products_result(products_cache, query, limit)]
    /\ UNCHANGED <<file_paths, documents, products_cache, load, memVars, sweepVars, loopVars, smartVars>>

MemConstructed ==
    /\ MemInit
    /\ sweep = NoSweep
    /\ req = [r \in Requests |-> NoRequest]
    /\ running = None

\* AgentService.__init__ wraps the document handler with the model it was given
SmartConstructed ==
    /\ hash_seed = 0
    /\ model = TRUE
    /\ SmartInit

\* a handler just constructed over some directory
LoadInit ==
    /\ MemConstructed
    /\ SmartConstructed
    /\ file_paths \in LoadDirectories
    /\ CorpusInit

LoadNext ==
    \/ load_begin
    \/ load_next_file
    \/ load_end
    \/ \E query \in LoadQueries, limit \in Limits : search_in_documents(query, limit)
    \/ \E query \in LoadQueries, limit \in Limits : search_products(query, limit)

LoadSpec == LoadInit /\ [][LoadNext]_vars

\* the startup of api_server: the handler has loaded its directory, then serves searches
SearchInit ==
    /\ MemConstructed
    /\ SmartConstructed
    /\ file_paths \in Directories
    /\ documents = load_files(EmptyCorpus, file_paths).documents
    /\ products_cache = load_files(EmptyCorpus, file_paths).products_cache
    /\ load = [NoLoad EXCEPT !.pc = "loaded"]
    /\ found = NoSearch

SearchNext ==
    \/ \E query \in Queries, limit \in Limits : search_in_documents(query, limit)
    \/ \E query \in Queries, limit \in Limits : search_products(query, limit)

SearchSpec == SearchInit /\ [][SearchNext]_vars

----------------------------------------------------------------------------
(* Query expansion: rewrite_query called for one utterance after another, the     *)
(* model answering each time with one of Responses.                              *)

rewrite_query(user_input, session_id, response) ==
    /\ \E o \in rewrite_query_outcomes(model, hash_seed, conversation_context, user_input,
                                        session_id, response) :
          /\ conversation_context' = o.context
          /\ rew' = [op |-> "rewrite_query", user_input |-> user_input, sid |-> session_id,
                     response |-> response, path |-> o.path, embedded |-> o.embedded,
                     result |-> o.result]
    /\ UNCHANGED <<hash_seed, model, info, memVars, sweepVars, loopVars, corpusVars>>

\* a SmartDocumentHandler made with or without a model handler
ExpandInit ==
    /\ MemConstructed
    /\ file_paths = <<>>
    /\ CorpusInit
    /\ hash_seed \in HashSeeds
    /\ model \in BOOLEAN
    /\ SmartInit

ExpandSessions == {None, "s1", "s2"}

ExpandNext ==
    \E user_input \in ContextUtterances, session_id \in ExpandSessions,
       response \in Responses :
        rewrite_query(user_input, session_id, response)

ExpandSpec == ExpandInit /\ [][ExpandNext]_vars

\* the same calls over every utterance, for one session
ExtractNext ==
    \E user_input \in Utterances, session_id \in {None, "s1"}, response \in Responses :
        rewrite_query(user_input, session_id, response)

ExtractSpec == ExpandInit /\ [][ExtractNext]_vars

\* the model outputs used where expansion runs beside the session memory
TopicResponses ==
    { Raises,
      [Object EXCEPT !.has_topic = TRUE, !.main_topic = "t1",
                     !.queries_kind = "list", !.search_queries = << <<"a">> >>],
      [Object EXCEPT !.has_topic = TRUE, !.main_topic = "t2",
                     !.queries_kind = "list", !.search_queries = << <<"b">> >>] }

\* expansion beside the calls that delete conversation history
TopicNext ==
    \/ Tick
    \/ \E sid \in ExpandSessions, response \in TopicResponses :
          rewrite_query(<<"a", "b", "a">>, sid, response)
    \/ \E sid \in RealSessions : add_message(sid, "consulting", "user", "hi")
    \/ \E sid \in RealSessions : clear_session(sid, None)
    \/ \E max_age_hours \in 0..MaxAge : cleanup_old_sessions(max_age_hours)

TopicSpec == Init /\ [][TopicNext]_vars

----------------------------------------------------------------------------
(* Aggregation: smart_search and get_context_aware_info called on a loaded      *)
(* corpus, the model answering each rewrite with one of GatherResponses.        *)

Priced(id, name, price) ==
    [dict |-> TRUE, fields |-> [id |-> id, name |-> name, price |-> price]]

GatherDatas ==
    { [kind |-> "list", items |-> <<Product(<<"p", "1">>, <<"a">>),
                                    Product(<<"p", "2">>, <<"a">>),
                                    Product(<<"p", "3">>, <<"b">>),
                                    Named(<<"b", "b">>)>>],
      [kind |-> "object", items |-> <<Priced(<<"p", "1">>, <<"a", "b">>, <<"5">>),
                                      Named(<<"b">>)>>] }

GatherDirectories ==
    { <<Txt(<<"t", "1">>, t1), Txt(<<"t", "2">>, <<"a", "A", "a">>),
        Txt(<<"t", "3">>, <<"b", " ", "a", "b">>), Json(<<"p">>, j)>> :
        t1 \in { <<"a", "b", "a", "b", "a">>, <<"b", "b">> }, j \in GatherDatas }

GatherUtterances ==
    { <<"a", "b", "a", " ", "n", "h", "u", " ", "b", "a", "b">>,
      <<"l", "a", " ", "g", "i">> }

\* the model raises, or answers with a list or a string of sub-queries
GatherResponses ==
    { Raises,
      [Object EXCEPT !.has_topic = TRUE, !.main_topic = "t1",
                     !.queries_kind = "list",
                     !.search_queries = << <<"a", "b">>, <<"a">> >>],
      [Object EXCEPT !.queries_kind = "list",
                     !.search_queries = << <<"a">>, <<"b">>, <<"a">> >>],
      [Object EXCEPT !.queries_kind = "text", !.search_text = <<"b", "a">>],
      [Object EXCEPT !.queries_kind = "list", !.search_queries = <<>>] }

\* the answers of the model while contexts are rendered
InfoResponses ==
    { r \in GatherResponses : r.kind = "raises" \/ r.queries_kind = "list" }

\* max_length: nothing, the length of one of the rendered texts, and what
\* agents.py passes
MaxLengths == {0, 122, 2000}

smart_search(user_input, session_id, limit, response) ==
    /\ \E o \in rewrite_query_outcomes(model, hash_seed, conversation_context, user_input,
                                       session_id, response) :
          LET results == smart_search_result(documents, products_cache, o.result, limit)
          IN  /\ conversation_context' = o.context
              /\ rew' = [op |-> "rewrite_query", user_input |-> user_input,
                         sid |-> session_id, response |-> response, path |-> o.path,
                         embedded |-> o.embedded, result |-> o.result]
              /\ info' = [NoInfo EXCEPT !.op = "smart_search", !.queries = o.result,
                                        !.documents = results.documents,
                                        !.products = results.products]
    /\ UNCHANGED <<hash_seed, model, memVars, sweepVars, loopVars, corpusVars>>

get_context_aware_info(user_input, session_id, max_length, response) ==
    /\ \E o \in rewrite_query_outcomes(model, hash_seed, conversation_context, user_input,
                                       session_id, response) :
          LET results == smart_search_result(documents, products_cache, o.result,
                                             ContextLimit)
              context == render(results)
          IN  /\ conversation_context' = o.context
              /\ rew' = [op |-> "rewrite_query", user_input |-> user_input,
                         sid |-> session_id, response |-> response, path |-> o.path,
                         embedded |-> o.embedded, result |-> o.result]
              /\ info' = [op |-> "get_context_aware_info", max_length |-> max_length,
                          queries |-> o.result, documents |-> results.documents,
                          products |-> results.products, rendered |-> context,
                          context |-> returned_context(context, max_length)]
    /\ UNCHANGED <<hash_seed, model, memVars, sweepVars, loopVars, corpusVars>>

\* the seeds the aggregation runs on
GatherSeeds == {0, 5}

\* the handler has loaded its directory and was wrapped with a model
GatherInit ==
    /\ MemConstructed
    /\ hash_seed \in GatherSeeds
    /\ model = TRUE
    /\ SmartInit
    /\ file_paths \in GatherDirectories
    /\ documents = load_files(EmptyCorpus, file_paths).documents
    /\ products_cache = load_files(EmptyCorpus, file_paths).products_cache
    /\ load = [NoLoad EXCEPT !.pc = "loaded"]
    /\ found = NoSearch

GatherNext ==
    \E user_input \in GatherUtterances, response \in GatherResponses :
        smart_search(user_input, "s1", ContextLimit, response)

GatherSpec == GatherInit /\ [][GatherNext]_vars

InfoNext ==
    \E response \in InfoResponses, max_length \in MaxLengths :
        get_context_aware_info(<<"a", "b", "a", " ", "n", "h", "u", " ", "b", "a", "b">>,
                               "s1", max_length, response)

InfoSpec == GatherInit /\ [][InfoNext]_vars

\* the directories the reads run on beside reloads
ReadDirectories ==
    {d \in GatherDirectories : d[1].text = <<"b", "b">> /\ d[4].data.kind = "list"}

\* the model raises or answers with a topic and a list of sub-queries
ReadResponses == {r \in InfoResponses : r.kind = "raises" \/ r.has_topic}

\* a handler that has loaded its directory and serves searches and contexts
ReadInit ==
    /\ MemConstructed
    /\ SmartConstructed
    /\ file_paths \in ReadDirectories
    /\ documents = load_files(EmptyCorpus, file_paths).documents
    /\ products_cache = load_files(EmptyCorpus, file_paths).products_cache
    /\ load = [NoLoad EXCEPT !.pc = "loaded"]
    /\ found = NoSearch

\* the four reading operations, and load_all_documents called again
ReadNext ==
    \/ load_begin
    \/ load_next_file
    \/ load_end
    \/ \E query \in LoadQueries : search_in_documents(query, PerQueryLimit)
    \/ \E query \in LoadQueries : search_products(query, PerQueryLimit)
    \/ \E response \in ReadResponses :
          smart_search(<<"a", "b", "a", " ", "n", "h", "u", " ", "b", "a", "b">>,
                       "s1", ContextLimit, response)
    \/ \E response \in ReadResponses :
          get_context_aware_info(<<"a", "b", "a", " ", "n", "h", "u", " ", "b", "a", "b">>,
                                 "s1", 2000, response)

ReadSpec == ReadInit /\ [][ReadNext]_vars

----------------------------------------------------------------------------
(* Properties of the session memory *)

TypeOK ==
    /\ DOMAIN memory \subseteq SessionIds
    /\ now \in 0..MaxTime
    /\ nAdds \in 0..MaxAdds
    /\ cleared \subseteq RealSessions
    /\ last.op \in {"init", "tick", "get_history", "add_message", "clear_session",
                    "cleanup_old_sessions", "get_session_info", "get_active_sessions"}

\* what get_history would hand out for (s, a), read without creating the session
LogOf(mem, s, a) ==
    IF s \in DOMAIN mem /\ a \in DOMAIN mem[s] THEN mem[s][a] ELSE <<>>

\* s holds no turn in any agent log (absent, or present with every log empty)
Blank(mem, s) == s \notin DOMAIN mem \/ \A a \in DOMAIN mem[s] : mem[s][a] = <<>>

\* the newest n elements of seq, in order
LastN(seq, n) ==
    LET k == IF Len(seq) < n THEN Len(seq) ELSE n
    IN  [i \in 1..k |-> seq[Len(seq) - k + i]]

\* every timestamp stored in a session, over all agent logs and all positions
AllTimestamps(agents) ==
    UNION {{agents[a][i].timestamp : i \in 1..Len(agents[a])} : a \in DOMAIN agents}

\* C1: every agent log of every session holds at most MAX_CONVERSATION_HISTORY
\* entries, and it holds exactly the newest MAX_CONVERSATION_HISTORY of the entries
\* appended to it (since it was last emptied), in append order.
C1_LogBoundedKeepsNewest ==
    \A s \in DOMAIN memory : \A a \in DOMAIN memory[s] :
        /\ Len(memory[s][a]) <= MAX_CONVERSATION_HISTORY
        /\ (s \in RealSessions /\ a \in KnownAgents)
              => memory[s][a] = LastN(appended[s][a], MAX_CONVERSATION_HISTORY)

\* C1 witness: one more entry than the cap was appended to a log, and the log now
\* starts with an entry other than the first one appended.
C1_Witness ==
    \E s \in RealSessions \cap DOMAIN memory : \E a \in KnownAgents :
        /\ Len(appended[s][a]) = MAX_CONVERSATION_HISTORY + 1
        /\ Len(memory[s][a]) = MAX_CONVERSATION_HISTORY
        /\ memory[s][a][1] # appended[s][a][1]

\* C2: every session present in the map has a log for each agent type
\* _ensure_session creates, never only some of them.
C2_AllAgentsPresent ==
    \A s \in DOMAIN memory : KnownAgents \subseteq DOMAIN memory[s]

\* C2 witness: a session is still present after one of its agent logs was cleared.
C2_Witness ==
    /\ last.op = "clear_session"
    /\ last.ok
    /\ ~Falsy(last.agent)
    /\ last.sid \in DOMAIN memory
    /\ \E a \in KnownAgents \ {last.agent} : memory[last.sid][a] # <<>>

\* C3: add_message(s, c) and clear_session(s, c) with a channel c change the log
\* of no pair other than (s, c).
C3_Isolation ==
    [][ (\/ last'.op = "add_message"
         \/ last'.op = "clear_session" /\ ~Falsy(last'.agent))
        => \A s \in SessionIds : \A a \in RoutedAgents :
              (s # last'.sid \/ a # last'.agent)
                 => LogOf(memory', s, a) = LogOf(memory, s, a) ]_vars

\* C3 witness: an entry was appended to one log while another log of the same
\* session and a log of another session hold entries.
C3_Witness ==
    /\ last.op = "add_message"
    /\ last.exc = "none"
    /\ ~Falsy(last.sid)
    /\ memory[last.sid][last.agent] # <<>>
    /\ \E a \in KnownAgents \ {last.agent} : memory[last.sid][a] # <<>>
    /\ \E s \in DOMAIN memory \ {last.sid} : ~Blank(memory, s)

\* C4: a session that holds no turn (never seen, or only read so far) stays without
\* turns through every call other than add_message on it, and get_history on it
\* returns the empty sequence.
C4_ReadMaterializesNothing ==
    [][ \A s \in RealSessions :
           (Blank(memory, s) /\ ~(last'.op = "add_message" /\ last'.sid = s))
              => /\ Blank(memory', s)
                 /\ (last'.op = "get_history" /\ last'.sid = s)
                       => (last'.hist = <<>> /\ s \in DOMAIN memory') ]_vars

\* C4 witness: get_history returned the empty sequence for a session that it left
\* in the map with every log empty.
C4_Witness ==
    /\ last.op = "get_history"
    /\ last.sid \in RealSessions \cap DOMAIN memory
    /\ Blank(memory, last.sid)
    /\ last.hist = <<>>

\* C5: the map never holds an entry keyed by the empty string or None, and a
\* get_history or add_message call with such a session id leaves the map unchanged,
\* raises nothing and (get_history) returns the empty sequence.
C5_NoSessionNoMemory ==
    /\ [](\A s \in DOMAIN memory : ~Falsy(s))
    /\ [][ (last'.op \in {"get_history", "add_message"} /\ Falsy(last'.sid))
           => (memory' = memory /\ last'.hist = <<>> /\ last'.exc = "none") ]_vars

\* C5 witness: add_message was called with an empty or None session id on a store
\* that holds sessions.
C5_Witness ==
    /\ last.op = "add_message"
    /\ Falsy(last.sid)
    /\ DOMAIN memory # {}
    /\ \E s \in DOMAIN memory : ~Blank(memory, s)

\* C6: a session removed by clear_session(session_id) holds no turn in any agent
\* log, and every get_history on it returns the empty sequence, until add_message
\* is called on it again.
C6_ClearedReadsEmpty ==
    \A s \in cleared :
        /\ Blank(memory, s)
        /\ (last.op = "get_history" /\ last.sid = s) => last.hist = <<>>

\* C6 witness: get_history returned the empty sequence for a session cleared before.
C6_Witness ==
    /\ last.op = "get_history"
    /\ last.sid \in cleared
    /\ last.sid \in DOMAIN memory
    /\ nAdds > 0

\* C7 as stated: clear_session returns true exactly when the session was in the map
\* at the call, whatever the agent argument.
C7_ReturnsWhetherSessionExisted ==
    [][ last'.op = "clear_session"
        => (last'.ok <=> last'.sid \in DOMAIN memory) ]_vars

\* C7 amended: clear_session returns true exactly when the session was in the map
\* at the call and the agent argument was absent or empty, or named an agent log
\* the session holds.
C7_ReturnsWhetherCleared ==
    [][ last'.op = "clear_session"
        => (last'.ok <=> /\ last'.sid \in DOMAIN memory
                         /\ \/ Falsy(last'.agent)
                            \/ last'.agent \in DOMAIN memory[last'.sid]) ]_vars

\* C7 witness: clear_session returned false for a session that is in the map, the
\* agent named being one the session does not hold.
C7_Witness ==
    /\ last.op = "clear_session"
    /\ ~last.ok
    /\ last.sid \in DOMAIN memory
    /\ last.agent \notin DOMAIN memory[last.sid]
    /\ ~Falsy(last.agent)

\* C8: cleanup_old_sessions(max_age) deletes every session that has turns all of
\* which are older than max_age, and keeps unchanged every session that has a turn
\* no older than max_age.
C8_SweepByMostRecentTurn ==
    [][ last'.op = "cleanup_old_sessions"
        => \A s \in DOMAIN memory :
              LET ts == AllTimestamps(memory[s])
              IN  /\ (ts # {} /\ \A t \in ts : now - t > last'.age)
                        => s \notin DOMAIN memory'
                  /\ (\E t \in ts : now - t <= last'.age)
                        => (s \in DOMAIN memory' /\ memory'[s] = memory[s]) ]_vars

\* C8 witness: a sweep deleted a session and kept another one that holds turns in
\* two agent logs, the newest of them in a log other than the one with the oldest.
C8_Witness ==
    /\ last.op = "cleanup_old_sessions"
    /\ last.n >= 1
    /\ \E s \in DOMAIN memory : \E a, b \in KnownAgents :
          /\ memory[s][a] # <<>>
          /\ memory[s][b] # <<>>
          /\ memory[s][a][Len(memory[s][a])].timestamp
                < memory[s][b][Len(memory[s][b])].timestamp

\* C9 as stated: cleanup_old_sessions deletes every session that has no turn in
\* any agent log, whatever the threshold.
C9_SweepDeletesEmptySessions ==
    [][ last'.op = "cleanup_old_sessions"
        => \A s \in DOMAIN memory : Blank(memory, s) => s \notin DOMAIN memory' ]_vars

\* C10 as stated: get_history and add_message with a non-empty session id and an
\* agent name the endpoints use complete without raising, the session being in the
\* map afterwards.
C10_MemoryOpsInfallible ==
    (last.op \in {"get_history", "add_message"} /\ ~Falsy(last.sid)
        /\ last.agent \in RoutedAgents)
       => (last.exc = "none" /\ last.sid \in DOMAIN memory)

\* C11: a session leaves the map only in a clear_session(session_id) step without a
\* channel, for that session, or in a cleanup_old_sessions step; get_history,
\* add_message, clear_session with a channel, get_session_info and
\* get_active_sessions remove no session.
C11_DestroyedOnlyByClearOrSweep ==
    [][ \A s \in DOMAIN memory :
           s \notin DOMAIN memory'
              => \/ last'.op = "cleanup_old_sessions"
                 \/ (last'.op = "clear_session" /\ last'.sid = s /\ Falsy(last'.agent)) ]_vars

\* C11 witness: clear_session without a channel removed a session while another
\* session stayed in the map.
C11_Witness ==
    /\ last.op = "clear_session"
    /\ last.ok
    /\ Falsy(last.agent)
    /\ last.sid \notin DOMAIN memory
    /\ DOMAIN memory # {}

\* C12 as stated: a sweep that runs beside get_history, add_message and
\* clear_session calls raises no error, and once it has returned every session left
\* in the map has all its agent logs, each within the cap.
C12_SweepSafeBesideTraffic ==
    /\ sweep.exc = "none"
    /\ sweep.pc = "done"
          => \A s \in DOMAIN memory :
                /\ KnownAgents \subseteq DOMAIN memory[s]
                /\ \A a \in DOMAIN memory[s] : Len(memory[s][a]) <= MAX_CONVERSATION_HISTORY

\* the handler of q has read the history of its pair and not yet made its last append
InSequence(q) == req[q].pc \in {"call", "in_completion", "append_user", "append_assistant"}

\* C13: when two requests for the same session and channel are in flight, no
\* append of one of them to the pair falls between the history read and the last
\* append of the other.
C13_SamePairSerialized ==
    [][ \A r \in Requests : \A q \in Requests \ {r} :
           ( /\ req[r].pc \in {"append_user", "append_assistant"}
             /\ req'[r].pc # req[r].pc
             /\ ~Falsy(req[r].sid)
             /\ req[q].sid = req[r].sid )
           => ~InSequence(q) ]_vars

\* one request appends its assistant turn while the other, for the same session,
\* is queued behind it
C13_Witness ==
    \E r \in Requests : \E q \in Requests \ {r} :
        /\ req[r].pc = "respond" /\ req[q].pc = "queued"
        /\ req[r].sid \in RealSessions /\ req[q].sid = req[r].sid
        /\ Len(memory[req[r].sid]["consulting"]) = 2

\* C14 as stated: while the completion call of a request is in flight the request
\* has no exclusive hold on the stores, so the queued request of another session
\* can start, read and append.
C14_OthersRunDuringCompletion ==
    \A r \in Requests : \A q \in Requests \ {r} :
        ( /\ req[r].pc = "in_completion"
          /\ req[q].pc = "queued"
          /\ req[q].sid # req[r].sid )
        => ENABLED handler_start(q)

----------------------------------------------------------------------------
(* Properties of the document corpus *)

Keys(d) == {d[i].key : i \in DOMAIN d}
ValueOf(d, key) == (CHOOSE item \in Range(d) : item.key = key).value

\* C15 as stated: a search that runs while load_all_documents is under way sees
\* the corpus as it was before the load began or as the finished load leaves it.
C15_ReaderSeesOldOrNewCorpus ==
    [][ found' # found
          => LET seen == [documents |-> documents, products_cache |-> products_cache]
             IN  \/ seen = load.old
                 \/ seen = load_files(EmptyCorpus, file_paths) ]_vars

\* C16 as stated: after a load, a file whose loading raised has left no document
\* entry and no product entry, and every other file is loaded in full.
C16_FailedRecordLeavesNothing ==
    load.pc = "loaded"
      => \A file \in Range(file_paths) :
            IF file.stem \in load.errors
            THEN /\ file.stem \notin Keys(documents)
                 /\ \A item \in Range(file.data.items) :
                       item.dict => product_key(item) \notin Keys(products_cache)
            ELSE /\ file.ext = <<".", "t", "x", "t">>
                       => /\ file.stem \in Keys(documents)
                          /\ ValueOf(documents, file.stem).content = file.text
                 /\ file.ext = <<".", "j", "s", "o", "n">>
                       => /\ file.stem \in Keys(documents)
                          /\ \A item \in Range(file.data.items) :
                                /\ product_key(item) \in Keys(products_cache)
                                /\ ValueOf(products_cache, product_key(item)) = item.fields

\* the query occurs in the content as it is written
Verbatim(content, query) == \E i \in 0..Len(content) : occurs_at(content, query, i)
\* the positions at which the query occurs in the content, letter case set aside
Positions(content, query) ==
    {i \in 0..Len(content) : occurs_at(lower(content), lower(query), i)}
\* the largest number of occurrences of the query no two of which overlap
Occurrences(content, query) ==
    IF query = <<>> THEN Cardinality(Positions(content, query))
    ELSE Max({Cardinality(S) : S \in
               {T \in SUBSET Positions(content, query) :
                   \A i \in T, j \in T : i < j => j - i >= Len(query)}})
\* entry j comes before entry i in the ranking: more occurrences, or as many and loaded earlier
RankedBefore(j, i, query) ==
    LET oj == Occurrences(documents[j].value.content, query)
        oi == Occurrences(documents[i].value.content, query)
    IN  oj > oi \/ (oj = oi /\ j < i)
Matching(query) == {i \in DOMAIN documents : Positions(documents[i].value.content, query) # {}}
HitsFor(key) == {h \in Range(found.hits) : h.document = key}

\* C17 as stated: a non-empty query that occurs verbatim in a loaded entry, searched
\* with limit >= 1, returns a hit for that entry with relevance >= 1.
C17_VerbatimEntryReturned ==
    (found.op = "search_in_documents" /\ found.query # <<>> /\ found.limit >= 1)
      => \A i \in DOMAIN documents :
            Verbatim(documents[i].value.content, found.query)
              => \E h \in HitsFor(documents[i].key) : h.relevance >= 1

\* C17 amended: the entry is returned with relevance >= 1 unless at least `limit`
\* other matching entries come before it in the ranking.
C17_VerbatimEntryReturnedUnlessCut ==
    (found.op = "search_in_documents" /\ found.query # <<>> /\ found.limit >= 1)
      => \A i \in DOMAIN documents :
            Verbatim(documents[i].value.content, found.query)
              => \/ \E h \in HitsFor(documents[i].key) : h.relevance >= 1
                 \/ Cardinality({j \in Matching(found.query) :
                                    RankedBefore(j, i, found.query)}) >= found.limit

\* a search with limit 1 on a corpus where two entries hold the query verbatim:
\* one is returned, the other is cut off
C17_Witness ==
    /\ found.op = "search_in_documents" /\ found.query # <<>> /\ found.limit = 1
    /\ \E i \in DOMAIN documents : \E j \in DOMAIN documents \ {i} :
          /\ Verbatim(documents[i].value.content, found.query)
          /\ Verbatim(documents[j].value.content, found.query)
          /\ \E h \in HitsFor(documents[i].key) : h.relevance >= 1
          /\ HitsFor(documents[j].key) = {}

\* C18 as stated: neither search returns more than `limit` results, limit 0 included.
C18_AtMostLimitResults ==
    /\ found.op = "search_in_documents" => Len(found.hits) <= found.limit
    /\ found.op = "search_products" => Len(found.products) <= found.limit

\* where in documents the entry of a hit stands
EntryOf(h) == CHOOSE i \in DOMAIN documents : documents[i].key = h.document

\* C19: the hits are in order of relevance descending, hits of equal relevance in
\* the load order of their entries, and what is returned is the first `limit`
\* entries of that ranking of all matching entries.
C19_RankedPrefix ==
    found.op = "search_in_documents"
      => /\ \A a \in DOMAIN found.hits, b \in DOMAIN found.hits :
               a < b => \/ found.hits[a].relevance > found.hits[b].relevance
                        \/ /\ found.hits[a].relevance = found.hits[b].relevance
                           /\ EntryOf(found.hits[a]) < EntryOf(found.hits[b])
         /\ Len(found.hits) = Min({found.limit, Cardinality(Matching(found.query))})
         /\ \A h \in Range(found.hits) :
               /\ h.document \in Keys(documents)
               /\ EntryOf(h) \in Matching(found.query)
               /\ \A j \in Matching(found.query) :
                     HitsFor(documents[j].key) = {} => RankedBefore(EntryOf(h), j, found.query)

\* two hits returned, the first from an entry loaded after the second, and a
\* matching entry left out that ties with the last hit and was loaded after it
C19_Witness ==
    /\ found.op = "search_in_documents" /\ Len(found.hits) = 2
    /\ EntryOf(found.hits[1]) > EntryOf(found.hits[2])
    /\ \E j \in Matching(found.query) :
          /\ HitsFor(documents[j].key) = {}
          /\ Occurrences(documents[j].value.content, found.query) = found.hits[2].relevance
          /\ j > EntryOf(found.hits[2])

\* the snippet of hit h is a contiguous piece of the content lying within
\* SnippetRadius characters before and after the start of the first occurrence
SnippetWithinWindow(h) ==
    LET content == documents[EntryOf(h)].value.content
        first == Min(Positions(content, found.query))
    IN  \E start \in 0..Len(content), end \in 0..Len(content) :
           /\ Max({0, first - SnippetRadius}) <= start
           /\ end <= Min({Len(content), first + SnippetRadius})
           /\ h.snippet = slice(content, start, end)

\* C20 as stated: the relevance of a hit is the number of occurrences of the query
\* in the content, letter case set aside, and its snippet lies in the window
\* around the first occurrence.
C20_RelevanceCountsOccurrences ==
    found.op = "search_in_documents"
      => \A h \in Range(found.hits) :
            /\ h.relevance = Cardinality(Positions(documents[EntryOf(h)].value.content,
                                                    found.query))
            /\ SnippetWithinWindow(h)

\* C20 amended: the relevance is the number of occurrences that do not overlap
\* one another, counted from the left.
C20_RelevanceCountsDisjointOccurrences ==
    found.op = "search_in_documents"
      => \A h \in Range(found.hits) :
            /\ h.relevance = Occurrences(documents[EntryOf(h)].value.content, found.query)
            /\ SnippetWithinWindow(h)

\* a hit whose query occurs at overlapping positions, with a snippet cut out of a
\* longer content
C20_Witness ==
    /\ found.op = "search_in_documents"
    /\ \E h \in Range(found.hits) :
          LET content == documents[EntryOf(h)].value.content
          IN  /\ h.relevance < Cardinality(Positions(content, found.query))
              /\ h.relevance >= 1
              /\ h.snippet # <<>> /\ Len(h.snippet) < Len(content)

\* C21 as stated: the empty query is malformed, so both searches return an empty
\* sequence for it whatever the corpus holds.
C21_EmptyQueryReturnsNothing ==
    found.query = <<>>
      => /\ found.op = "search_in_documents" => found.hits = <<>>
         /\ found.op = "search_products" => found.products = <<>>

----------------------------------------------------------------------------
(* Properties of the query expansion *)

NoDuplicates(q) == \A i \in DOMAIN q, j \in DOMAIN q : i # j => q[i] # q[j]

\* the rewrite attempt failed: the model raised, its output held no object that
\* parses, or the object's search_queries is missing, no list, empty or too long
RewriteFailed(response) ==
    \/ response.kind \in {"raises", "no_json", "bad_json"}
    \/ response.queries_kind # "list"
    \/ response.search_queries = <<>>
    \/ Len(response.search_queries) > MaxQueries

\* C22 as stated: for a non-empty utterance rewrite_query returns at least one
\* sub-query and at least one that is not the empty string; an utterance that
\* yields no keyword comes back itself as the only sub-query.
C22_AtLeastOneNonEmptySubQuery ==
    (rew.op = "rewrite_query" /\ rew.user_input # <<>>)
      => /\ rew.result.is_list
         /\ \E i \in DOMAIN rew.result.items : rew.result.items[i] # <<>>
         /\ (rew.path = "fallback" /\ keywords_of(rew.user_input) = <<>>)
               => rew.result.items = <<rew.user_input>>

\* C23 as stated: whenever the rewrite attempt fails, rewrite_query returns what
\* the rule-based extraction of the utterance returns.
C23_FailureFallsThroughToRules ==
    (rew.op = "rewrite_query" /\ model /\ RewriteFailed(rew.response))
      => /\ rew.path = "fallback"
         /\ rew.result.is_list
         /\ rew.result.items = simple_keyword_extraction(rew.user_input, hash_seed)

\* C24: a call whose result comes from the rule-based extraction leaves
\* conversation_context as it was, for every session.
C24_FallbackKeepsContext ==
    [][ (rew'.op = "rewrite_query" /\ rew'.path = "fallback")
          => conversation_context' = conversation_context ]_vars

\* a call that fell back, after a model failure, for a session that has a context
C24_Witness ==
    /\ rew.op = "rewrite_query" /\ rew.path = "fallback" /\ model
    /\ rew.response.kind = "bad_json"
    /\ rew.sid \in DOMAIN conversation_context
    /\ conversation_context[rew.sid].topic = "t1"

\* C25: a rewrite that parsed replaces the context of its session by exactly the
\* main_topic and entities of this rewrite, and a call embeds in its prompt the
\* topic stored for its session by the rewrite before.
C25_ContextOverwritten ==
    [][ (rew'.op = "rewrite_query" /\ model /\ ~Falsy(rew'.sid))
          => /\ rew'.path = "llm"
                   => /\ rew'.sid \in DOMAIN conversation_context'
                      /\ conversation_context'[rew'.sid] =
                            [topic |-> IF rew'.response.has_topic
                                       THEN rew'.response.main_topic ELSE None,
                             entities |-> IF rew'.response.has_entities
                                          THEN rew'.response.entities ELSE <<>>]
             /\ rew'.sid \in DOMAIN conversation_context
                   => rew'.embedded = IF Falsy(conversation_context[rew'.sid].topic)
                                      THEN EmptyStr
                                      ELSE conversation_context[rew'.sid].topic ]_vars

\* a rewrite without main_topic for a session whose topic was t1: t1 went into
\* the prompt of this call and is gone from the context after it
C25_Witness ==
    /\ rew.op = "rewrite_query" /\ rew.path = "llm" /\ rew.sid = "s1"
    /\ rew.embedded = "t1"
    /\ ~rew.response.has_topic
    /\ conversation_context["s1"] = [topic |-> None, entities |-> <<"e2">>]

\* C26 as stated: what rewrite_query returns holds at most MaxQueries sub-queries
\* and none twice, on either path.
C26_AtMostMaxQueriesNoDuplicates ==
    rew.op = "rewrite_query"
      => /\ rew.result.is_list
         /\ Len(rew.result.items) <= MaxQueries
         /\ NoDuplicates(rew.result.items)

----------------------------------------------------------------------------
(* Properties of the aggregation.  They are stated over the sub-queries of the  *)
(* last call and what each search returns for them on the loaded corpus.        *)

SubQueries == query_sequence(info.queries)
DocHitsOf(i) == search_in_documents_result(documents, SubQueries[i], PerQueryLimit)
ProductHitsOf(i) == search_products_result(products_cache, SubQueries[i], PerQueryLimit)

\* the sub-queries that returned the document file f, the product with key id
DocQueries(f) ==
    {i \in DOMAIN SubQueries : \E k \in DOMAIN DocHitsOf(i) : DocHitsOf(i)[k].filename = f}
ProductQueries(id) ==
    {i \in DOMAIN SubQueries : \E k \in DOMAIN ProductHitsOf(i) : ProductHitsOf(i)[k].id = id}

\* where an entry was discovered: the earliest sub-query that returned it and its
\* place in what that search returned
DocDiscovery(f) ==
    LET i == Min(DocQueries(f))
    IN  <<i, CHOOSE k \in DOMAIN DocHitsOf(i) : DocHitsOf(i)[k].filename = f>>
ProductDiscovery(id) ==
    LET i == Min(ProductQueries(id))
    IN  <<i, CHOOSE k \in DOMAIN ProductHitsOf(i) : ProductHitsOf(i)[k].id = id>>
Precedes(a, b) == a[1] < b[1] \/ (a[1] = b[1] /\ a[2] < b[2])

FoundFiles == {f \in {documents[d].value.filename : d \in DOMAIN documents} : DocQueries(f) # {}}
FoundProducts == {id \in Keys(products_cache) : ProductQueries(id) # {}}
FirstDocHit(f) == DocHitsOf(DocDiscovery(f)[1])[DocDiscovery(f)[2]]
FirstProductHit(id) == ProductHitsOf(ProductDiscovery(id)[1])[ProductDiscovery(id)[2]]

\* C27: whatever the sub-queries, smart_search returns each document at most once
\* and each product at most once.
C27_EachEntryAtMostOnce ==
    info.op = "smart_search"
      => /\ \A i \in DOMAIN info.documents, j \in DOMAIN info.documents :
               i # j => /\ info.documents[i].document # info.documents[j].document
                        /\ info.documents[i].filename # info.documents[j].filename
         /\ \A i \in DOMAIN info.products, j \in DOMAIN info.products :
               i # j => info.products[i].id # info.products[j].id

\* two sub-queries returned the same document and two returned the same product
C27_Witness ==
    /\ info.op = "smart_search"
    /\ \E k \in DOMAIN info.documents : Cardinality(DocQueries(info.documents[k].filename)) >= 2
    /\ \E k \in DOMAIN info.products : Cardinality(ProductQueries(info.products[k].id)) >= 2

\* C28: the hit smart_search returns for an entry is the one of the earliest
\* sub-query that returned the entry, snippet and relevance included.
C28_FirstOccurrenceWins ==
    info.op = "smart_search"
      => /\ \A k \in DOMAIN info.documents :
               /\ DocQueries(info.documents[k].filename) # {}
               /\ info.documents[k] = FirstDocHit(info.documents[k].filename)
         /\ \A k \in DOMAIN info.products :
               /\ ProductQueries(info.products[k].id) # {}
               /\ info.products[k] = FirstProductHit(info.products[k].id)

\* a later sub-query returned another hit, of higher relevance, for a document that
\* is returned with the hit of the earlier one
C28_Witness ==
    /\ info.op = "smart_search"
    /\ \E k \in DOMAIN info.documents :
          \E j \in DocQueries(info.documents[k].filename) :
             \E h \in Range(DocHitsOf(j)) :
                /\ j > DocDiscovery(info.documents[k].filename)[1]
                /\ h.filename = info.documents[k].filename
                /\ h.relevance > info.documents[k].relevance
                /\ h.snippet # info.documents[k].snippet

\* C29: the documents returned are in descending order of relevance and no found
\* document left out has a higher relevance than one returned; the products
\* returned are the first ContextLimit found, in the order of their discovery.
C29_RankedDocumentsDiscoveryOrderedProducts ==
    info.op = "smart_search"
      => /\ \A i \in DOMAIN info.documents, j \in DOMAIN info.documents :
               i < j => info.documents[i].relevance >= info.documents[j].relevance
         /\ \A f \in FoundFiles :
               (\A k \in DOMAIN info.documents : info.documents[k].filename # f)
                 => /\ Len(info.documents) = ContextLimit
                    /\ \A k \in DOMAIN info.documents :
                          info.documents[k].relevance >= FirstDocHit(f).relevance
         /\ Len(info.products) <= ContextLimit
         /\ \A i \in DOMAIN info.products, j \in DOMAIN info.products :
               i < j => Precedes(ProductDiscovery(info.products[i].id),
                                 ProductDiscovery(info.products[j].id))
         /\ \A id \in FoundProducts :
               (\A k \in DOMAIN info.products : info.products[k].id # id)
                 => /\ Len(info.products) = ContextLimit
                    /\ \A k \in DOMAIN info.products :
                          Precedes(ProductDiscovery(info.products[k].id),
                                   ProductDiscovery(id))

\* four products were found and three returned, and a document found later stands
\* before one found earlier
C29_Witness ==
    /\ info.op = "smart_search"
    /\ Cardinality(FoundProducts) > ContextLimit
    /\ Len(info.products) = ContextLimit
    /\ \E i \in DOMAIN info.documents, j \in DOMAIN info.documents :
          /\ i < j
          /\ info.documents[i].relevance > info.documents[j].relevance
          /\ Precedes(DocDiscovery(info.documents[j].filename),
                      DocDiscovery(info.documents[i].filename))

\* C30: with at least one hit and max_length >= 0, get_context_aware_info returns
\* the rendered text itself when it is no longer than max_length, and otherwise its
\* first max_length characters followed by the marker; the result is never longer
\* than max_length plus the marker.
C30_LengthBounded ==
    (info.op = "get_context_aware_info" /\ (info.documents # <<>> \/ info.products # <<>>))
      => /\ Len(info.rendered) <= info.max_length => info.context = info.rendered
         /\ Len(info.rendered) > info.max_length
              => info.context = SubSeq(info.rendered, 1, info.max_length) \o TruncationMarker
         /\ Len(info.context) <= info.max_length + Len(TruncationMarker)

\* a text with documents and products that was cut inside
C30_Witness ==
    /\ info.op = "get_context_aware_info"
    /\ info.documents # <<>> /\ info.products # <<>>
    /\ 0 < info.max_length /\ info.max_length < Len(info.rendered)
    /\ Len(info.context) = info.max_length + Len(TruncationMarker)

\* C31: for max_length >= 0 get_context_aware_info never returns the empty
\* string; it returns NotFoundText when the searches gave no document and no
\* product, and only then.
C31_SentinelIffNoHit ==
    info.op = "get_context_aware_info"
      => /\ info.context # <<>>
         /\ (info.documents = <<>> /\ info.products = <<>>) <=> info.context = NotFoundText

\* a call whose sub-queries hit nothing, at max_length 0
C31_Witness ==
    /\ info.op = "get_context_aware_info"
    /\ info.max_length = 0
    /\ info.queries.is_list /\ info.queries.items # <<>>
    /\ info.documents = <<>> /\ info.products = <<>>
    /\ info.context = NotFoundText

----------------------------------------------------------------------------
(* Properties of the rule-based extraction *)

\* the keywords of the last utterance and the candidate set they give
LastKeywords ==
    SelectSeq(split(lower(rew.user_input)),
              LAMBDA w : w \notin stop_words /\ Len(w) > MinKeywordLength)
LastCandidates ==
    LET kw == LastKeywords
    IN  (IF Len(kw) <= MaxSingleKeywords THEN {join(kw, <<" ">>)} ELSE {})
        \cup {kw[i] : i \in {j \in DOMAIN kw : j <= MaxSingleKeywords}}
        \cup {kw[i] \o <<" ">> \o kw[i + 1] : i \in {j \in DOMAIN kw : j < Len(kw)}}

\* C32: the rule-based path returns min(MaxQueries, |C|) sub-queries, no two the
\* same, each one a member of the candidate set C of the utterance.
C32_FallbackReturnsCandidates ==
    (rew.op = "rewrite_query" /\ rew.path = "fallback")
      => /\ rew.result.is_list
         /\ Len(rew.result.items) = Min({MaxQueries, Cardinality(LastCandidates)})
         /\ NoDuplicates(rew.result.items)
         /\ Range(rew.result.items) \subseteq LastCandidates

\* an utterance with a repeated keyword and more candidates than are returned
C32_Witness ==
    /\ rew.op = "rewrite_query" /\ rew.path = "fallback" /\ ~model
    /\ Cardinality(LastCandidates) > MaxQueries
    /\ Cardinality(Range(LastKeywords)) < Len(LastKeywords)
    /\ Len(rew.result.items) = MaxQueries

\* C33 as stated: the rule-based path returns, for an utterance, the same
\* sub-queries in the same order in every invocation, whatever process serves it.
C33_FallbackSameInEveryProcess ==
    (rew.op = "rewrite_query" /\ rew.path = "fallback")
      => \A seed \in HashSeeds :
            simple_keyword_extraction(rew.user_input, seed) = rew.result.items

----------------------------------------------------------------------------
(* Properties of the agent endpoints *)

\* the handler of request q has ended, with a response or with an error response
Ended(q) == req[q].pc \in {"done", "failed"}

\* C34 as stated: every agent request with a session id reads the prior turns,
\* invokes the completion with them and then appends the user turn and the
\* assistant turn, so a request whose handler has ended has added exactly the
\* two turns user, assistant to its channel, and one without session id none.
C34_RequestAddsUserThenAssistant ==
    \A q \in Requests :
        Ended(q) =>
            IF Falsy(req[q].sid)
            THEN req[q].added = <<>>
            ELSE /\ req[q].added = <<"user", "assistant">>
                 /\ req[q].turns = Append(recent_turns(req[q].history), UserTurn("hi"))

----------------------------------------------------------------------------
(* Order of the turns within a log *)

\* C35: with a clock that never goes back, the turns of every agent log are in
\* non-decreasing timestamp order, so the last turn of a log carries the greatest
\* timestamp of the log and the time the sweep computes from the last turns is
\* the newest timestamp of the session; this holds for truncated logs too.
C35_LogsInTimestampOrder ==
    \A s \in DOMAIN memory :
        /\ \A a \in DOMAIN memory[s] :
              LET log == memory[s][a]
              IN  /\ \A i \in DOMAIN log : \A j \in DOMAIN log :
                        i < j => log[i].timestamp <= log[j].timestamp
                  /\ \A i \in DOMAIN log : log[i].timestamp <= log[Len(log)].timestamp
        /\ AllTimestamps(memory[s]) # {}
              => most_recent(memory[s]) = Max(AllTimestamps(memory[s]))

\* C35 witness: a log that was truncated holds turns of two different times
C35_Witness ==
    \E s \in DOMAIN memory : \E a \in DOMAIN memory[s] :
        /\ Len(appended[s][a]) > MAX_CONVERSATION_HISTORY
        /\ Len(memory[s][a]) = MAX_CONVERSATION_HISTORY
        /\ memory[s][a][1].timestamp < memory[s][a][Len(memory[s][a])].timestamp
        /\ most_recent(memory[s]) = memory[s][a][Len(memory[s][a])].timestamp

----------------------------------------------------------------------------
(* The completion call and the stored history *)

\* the handler of q has read the history and not yet appended a turn
BetweenReadAndAppend(q) == req[q].pc \in {"call", "in_completion", "append_user"}

\* C36: from the history read of a request with a session id until its first
\* add_message the stored log of its channel is the list that was read, unchanged;
\* the completion builds its prompt from a separate list holding at most the last
\* HistoryWindow turns of it followed by the current utterance.
C36_CompletionLeavesHistory ==
    \A q \in Requests :
        (BetweenReadAndAppend(q) /\ ~Falsy(req[q].sid))
          => /\ LogOf(memory, req[q].sid, req[q].agent) = req[q].history
             /\ req[q].pc # "call"
                   => /\ req[q].turns = Append(LastN(req[q].history, HistoryWindow),
                                               UserTurn("hi"))
                      /\ Len(req[q].turns) <= HistoryWindow + 1

\* C36 witness: a completion has returned for a request whose channel holds more
\* turns than the completion keeps
C36_Witness ==
    \E q \in Requests :
        /\ req[q].pc = "append_user"
        /\ req[q].sid \in RealSessions
        /\ Len(req[q].history) > HistoryWindow
        /\ memory[req[q].sid][req[q].agent] = req[q].history
        /\ Len(req[q].turns) = HistoryWindow + 1

----------------------------------------------------------------------------
(* The topic contexts and the session memory *)

\* the context stored for session s, if any
ContextOf(context, s) == IF s \in DOMAIN context THEN <<context[s]>> ELSE <<>>

\* C37: a rewrite_query call changes the stored context of no session other than
\* its own and of none when it has no session id, and the operations of the
\* session memory leave every stored context as it is, so the topic of a session
\* outlives the deletion of its conversation history.
C37_TopicContextIsolated ==
    [][ /\ \A s \in SessionIds :
              s # rew'.sid
                => ContextOf(conversation_context', s) = ContextOf(conversation_context, s)
        /\ Falsy(rew'.sid) => conversation_context' = conversation_context
        /\ (memory' # memory \/ last' # last)
              => conversation_context' = conversation_context ]_vars

\* C37 witness: the sweep has deleted the history of one session and clear_session
\* that of the other, both sessions still have their topics, which differ, and the
\* last rewrite, made without session id, yielded a topic that was stored nowhere
C37_Witness ==
    /\ last.op = "cleanup_old_sessions" /\ last.n = 1
    /\ DOMAIN memory = {}
    /\ cleared # {}
    /\ DOMAIN conversation_context = RealSessions
    /\ conversation_context["s1"].topic = "t1"
    /\ conversation_context["s2"].topic = "t2"
    /\ rew.op = "rewrite_query" /\ Falsy(rew.sid) /\ rew.path = "llm"
    /\ rew.response.main_topic = "t2"

----------------------------------------------------------------------------
(* The corpus under the reading operations *)

\* C38: search_in_documents, search_products, smart_search and
\* get_context_aware_info leave the documents and the products as they are; the
\* entries change only in the steps of a load_all_documents call.
C38_SearchesLeaveCorpus ==
    [][ /\ (found' # found \/ info' # info \/ rew' # rew)
              => (documents' = documents /\ products_cache' = products_cache)
        /\ (documents' # documents \/ products_cache' # products_cache)
              => (load' # load /\ load'.pc = "loading") ]_vars

\* C38 witness: after a reload that rebuilt the same corpus, a product search has
\* returned a product stored without an id field, and a context was built from
\* documents and products
C38_Witness ==
    /\ load.pc = "loaded"
    /\ load.old.documents # <<>>
    /\ documents = load.old.documents
    /\ products_cache = load.old.products_cache
    /\ found.op = "search_products"
    /\ \E i \in DOMAIN found.products : "id" \notin DOMAIN found.products[i].product
    /\ info.op = "get_context_aware_info"
    /\ info.documents # <<>>
    /\ info.products # <<>>

====
